---- MODULE Spec2Model ----
(***************************************************************************)
(* ModernFinanceServer: the tagged Redis cache (CacheService), its         *)
(* cache-aside helper getOrSet, and the two provider fallback chains       *)
(* (LLMService.generateAgentPerspective, MarketService.getFundamentals).   *)
(*                                                                         *)
(* Time is counted in whole seconds.  A Redis entry carries its remaining  *)
(* time to live; an entry whose remaining time reaches 0 is gone.          *)
(***************************************************************************)
EXTENDS Integers, Sequences, FiniteSets, TLC

VARIABLES
  isConnected,  \* CacheService.isConnected
  stats,        \* CacheService.stats
  kv,           \* Redis string keys: key -> [s: serialized value, ttl: seconds left]
  tagsets,      \* Redis sets "tag:<t>": tag -> [members, ttl: seconds left]
  ticks,        \* number of clock advances so far
  lastOp,       \* the cache operation that returned last, with its result
  written,      \* per key: the last set call on a healthy backend, and its age
  setTags,      \* per key: the tags its latest set call carried ({} once the key is gone)
  onlySets,     \* TRUE while every cache operation so far was a set on a healthy backend
  pc,           \* concurrent getOrSet callers: position of each
  local,        \* concurrent getOrSet callers: locals of each
  writeOrder,   \* concurrent getOrSet callers: order in which SETEX commands were applied
  llmClients,   \* LLMService: which provider clients the constructor created
  avKey,        \* whether process.env.ALPHA_VANTAGE_API_KEY is set
  lastCall,     \* the fallback chain call that returned last, with its result
  requestCount,    \* AlphaVantageService.requestCount
  lastRequestTime, \* AlphaVantageService.lastRequestTime
  now              \* Date.now(), in units of a third of the rate-limit window

cacheVars == <<isConnected, stats, kv, tagsets, ticks, lastOp, written, setTags, onlySets>>
procVars  == <<pc, local, writeOrder>>
chainVars == <<llmClients, avKey, lastCall>>
limiterVars == <<requestCount, lastRequestTime, now>>
vars      == <<isConnected, stats, kv, tagsets, ticks, lastOp, written, setTags,
               onlySets, pc, local, writeOrder, llmClients, avKey, lastCall,
               requestCount, lastRequestTime, now>>

----------------------------------------------------------------------------
(* Bounds of the model *)

MaxTicks == 2          \* clock advances in one behaviour
MaxOps    == 2         \* counted operations of the full cache
MaxFillOps == 3        \* counted operations of the cache-aside runs
MaxTagOps == 3         \* counted operations of the tag index on a healthy backend

(* keys the callers of the cache choose, and the keys of MarketService *)
ClientKeys == {"k1", "k2"}
Symbols == {"AAPL"}
cacheKey(symbol) == "fundamentals:" \o symbol
sentimentKey(symbol) == "sentiment:" \o symbol
Keys == ClientKeys \cup {cacheKey(symbol) : symbol \in Symbols}
                  \cup {sentimentKey(symbol) : symbol \in Symbols}
Tags == {"t1", "t2"}
TagLists == {<<>>, <<"t1">>, <<"t2">>, <<"t1", "t2">>}

(* JavaScript values handed to the cache.  "null" is the value null,       *)
(* "NaN" a number JSON cannot encode, "cyclic" an object JSON.stringify    *)
(* rejects. *)
Values == {"a", "null", "NaN", "cyclic"}

(* options.ttl as passed by a caller; 0 stands for both 0 and omitted *)
TTLs == {0, 1, 2}

cacheTTL_default == 3600

TickSteps == {1, cacheTTL_default}

----------------------------------------------------------------------------
(* Market data providers.  A fundamentals map is a function from field     *)
(* names to values; a value is named after the request it came from.  Of   *)
(* the fields, "P/E Ratio" stands for those only the overview supplies,    *)
(* "Price" for those the overview zeroes and the quote fills, "Change" for *)
(* those only the quote supplies.                                          *)

EmptyMap == [k \in {} |-> ""]

Put(f, k, v) == [x \in DOMAIN f \cup {k} |-> IF x = k THEN v ELSE f[x]]

(* the outcome of the four Alpha Vantage requests: quote and overview were *)
(* fulfilled or rejected; income: at least two reports with revenue came   *)
(* back; balance: a report with positive equity came back                  *)
AVOutcomes == [quote : BOOLEAN, overview : BOOLEAN, income : BOOLEAN, balance : BOOLEAN]

getOverview ==
  [k \in {"P/E Ratio", "Revenue Growth", "Debt to Equity", "Price"} |->
     CASE k = "P/E Ratio"      -> "overview"
       [] k = "Revenue Growth" -> "0.15"
       [] k = "Debt to Equity" -> "0.5"
       [] k = "Price"          -> "0"]

getComprehensiveFundamentals(o) ==
  LET f0 == IF o.overview THEN getOverview ELSE EmptyMap
      f1 == IF o.quote THEN Put(Put(f0, "Price", "quote"), "Change", "quote") ELSE f0
      f2 == IF o.income THEN Put(f1, "Revenue Growth", "income") ELSE f1
      f3 == IF o.balance THEN Put(f2, "Debt to Equity", "balance") ELSE f2
  IN f3

(* Yahoo Finance: the request fails, or answers with every module, or      *)
(* answers without the financialData module                                *)
YahooOutcomes == {"throw", "ok", "sparse"}

yahooGetFundamentals(o) ==
  [k \in {"P/E Ratio", "Revenue Growth", "Debt to Equity", "Price"} |->
     IF o = "sparse" /\ k \in {"Revenue Growth", "Debt to Equity"} THEN "0" ELSE "yahoo"]

generateMockFundamentals(symbol) ==
  [k \in {"P/E Ratio", "Revenue Growth", "Debt to Equity", "Price"} |-> "mock:" \o symbol]

(* every map a provider can hand to MarketService *)
FundMaps ==
  {getComprehensiveFundamentals(o) : o \in AVOutcomes}
    \cup {yahooGetFundamentals(o) : o \in YahooOutcomes \ {"throw"}}
    \cup {generateMockFundamentals(symbol) : symbol \in Symbols}

(* Sentiment: Yahoo's is derived from its fundamentals; when that request  *)
(* fails YahooFinanceService.getSentiment itself answers with a neutral    *)
(* default                                                                 *)
SentimentFields == {"analystRating", "socialSentiment", "newsVolume", "sentimentTrend"}

yahooGetSentiment(o) ==
  [k \in SentimentFields |-> IF o = "throw" THEN "neutral default" ELSE "derived"]

generateMockSentiment(symbol) == [k \in SentimentFields |-> "mock:" \o symbol]

SentimentMaps ==
  {yahooGetSentiment(o) : o \in YahooOutcomes}
    \cup {generateMockSentiment(symbol) : symbol \in Symbols}

(* every object MarketService and MarketController hand to the cache *)
AllMaps == FundMaps \cup SentimentMaps

----------------------------------------------------------------------------
(* JSON.  A JavaScript value is a string: a scalar by its name, an object  *)
(* m by "object:" followed by its printed form.                            *)
(* The text of a string v is "json:" followed by v; the text of an object  *)
(* is "json:" followed by its printed form.                                *)

Throws == "<<throws>>"

JSONstringifyMap(m) == "json:" \o ToString(m)

MapTexts == {JSONstringifyMap(m) : m \in AllMaps}

(* the object m as a JavaScript value *)
ObjectValue(m) == "object:" \o ToString(m)

TextOf == [v \in {ObjectValue(m) : m \in AllMaps} |->
             JSONstringifyMap(CHOOSE m \in AllMaps : v = ObjectValue(m))]

JSONstringify(v) ==
  CASE v = "cyclic" -> Throws
    [] v = "NaN"    -> "null"
    [] v = "null"   -> "null"
    [] v \in DOMAIN TextOf -> TextOf[v]
    [] OTHER        -> "json:" \o v

(* the inverse of both encodings, as tables *)
Unquote == [q \in {"json:" \o t : t \in MapTexts} |->
              CHOOSE t \in MapTexts : q = "json:" \o t]
MapOf == [t \in MapTexts |-> CHOOSE m \in AllMaps : t = JSONstringifyMap(m)]

JSONparse(s) ==
  CASE s = "null"   -> "null"
    [] s = "json:a" -> "a"
    [] s = "json:b" -> "b"
    [] s \in DOMAIN Unquote -> Unquote[s]
    [] s \in DOMAIN MapOf   -> ObjectValue(MapOf[s])
    [] OTHER        -> Throws

(* JSON.parse(cached) where a map is expected: the argument is turned into *)
(* a string first, and an object turns into "[object Object]", which is no *)
(* JSON text                                                               *)
JSONparseMap(s) ==
  IF s \in DOMAIN MapOf
  THEN [ok |-> TRUE, value |-> MapOf[s]]
  ELSE [ok |-> FALSE, value |-> EmptyMap]

----------------------------------------------------------------------------
(* The Redis server: commands as functions of the server state             *)
(* r = [kv |-> ..., tagsets |-> ...]                                       *)

NoEntry == [s |-> "", ttl |-> 0]
NoSet   == [members |-> {}, ttl |-> 0]
NoExpiry == -1

Live(e) == e.ttl # 0

(* the reply of GET for a key that does not exist (JavaScript null) *)
Nil == "<<nil>>"

RedisGet(r, key) == IF Live(r.kv[key]) THEN r.kv[key].s ELSE Nil

(* a write that keeps an existing entry (SET ... NX) *)
RedisSetnx(r, key, ttl, s) ==
  IF Live(r.kv[key]) THEN r ELSE [r EXCEPT !.kv[key] = [s |-> s, ttl |-> ttl]]

RedisSetex(r, key, ttl, s) ==
  [r EXCEPT !.kv[key] = [s |-> s, ttl |-> ttl]]

(* SADD creates the set without expiry when it does not exist *)
RedisSadd(r, tag, key) ==
  [r EXCEPT !.tagsets[tag] =
     [members |-> @.members \cup {key},
      ttl     |-> IF @.ttl = 0 THEN NoExpiry ELSE @.ttl]]

RedisExpire(r, tag, ttl) ==
  IF r.tagsets[tag].ttl = 0 THEN r
  ELSE [r EXCEPT !.tagsets[tag].ttl = ttl]

RedisSmembers(r, tag) == r.tagsets[tag].members

RedisDelKeys(r, keys) ==
  [r EXCEPT !.kv = [k \in Keys |-> IF k \in keys THEN NoEntry ELSE @[k]]]

(* DEL answers with the number of names that held an entry *)
RedisDelCount(r, keys) == Cardinality({k \in keys \cap Keys : Live(r.kv[k])})

RedisDelTags(r, tags) ==
  [r EXCEPT !.tagsets = [t \in Tags |-> IF t \in tags THEN NoSet ELSE @[t]]]

(* d seconds pass *)
Age(ttl, d) == IF ttl = NoExpiry THEN NoExpiry ELSE IF ttl > d THEN ttl - d ELSE 0

RedisElapse(r, d) ==
  [kv |-> [k \in Keys |->
             IF Age(r.kv[k].ttl, d) = 0 THEN NoEntry
             ELSE [r.kv[k] EXCEPT !.ttl = Age(@, d)]],
   tagsets |-> [t \in Tags |->
             IF Age(r.tagsets[t].ttl, d) = 0 THEN NoSet
             ELSE [r.tagsets[t] EXCEPT !.ttl = Age(@, d)]]]

----------------------------------------------------------------------------
(* CacheService.  A method is a function of the world                      *)
(* w = [isConnected, stats, r] and of its arguments; `fail` names the      *)
(* Redis command of the call that is rejected ("none": the backend is      *)
(* healthy).  The result is [w |-> world afterwards, ret |-> return value]. *)

World == [isConnected |-> isConnected, stats |-> stats,
          r |-> [kv |-> kv, tagsets |-> tagsets]]

ZeroStats == [hits |-> 0, misses |-> 0, sets |-> 0, deletes |-> 0, errors |-> 0,
              hitRate |-> [num |-> 0, den |-> 1]]

(* an update that leaves out the factor 100 *)
updateHitRate_ratio(st) ==
  LET total == st.hits + st.misses
  IN [st EXCEPT !.hitRate = IF total > 0 THEN [num |-> st.hits, den |-> total]
                            ELSE [num |-> 0, den |-> 1]]

(* hitRate is the fraction num/den *)
updateHitRate(st) ==
  LET total == st.hits + st.misses
  IN [st EXCEPT !.hitRate = IF total > 0 THEN [num |-> st.hits * 100, den |-> total]
                            ELSE [num |-> 0, den |-> 1]]

CountError(w) == [w EXCEPT !.stats.errors = @ + 1]

get(w, key, fail) ==
  IF ~w.isConnected THEN [w |-> w, ret |-> "null"]
  ELSE IF fail = "get" THEN [w |-> CountError(w), ret |-> "null"]
  ELSE LET value == RedisGet(w.r, key) IN
    IF value = Nil
    THEN [w |-> [w EXCEPT !.stats = updateHitRate([@ EXCEPT !.misses = @ + 1])],
          ret |-> "null"]
    ELSE LET w1 == [w EXCEPT !.stats = updateHitRate([@ EXCEPT !.hits = @ + 1])] IN
      IF JSONparse(value) = Throws
      THEN [w |-> CountError(w1), ret |-> "null"]
      ELSE [w |-> w1, ret |-> JSONparse(value)]

(* for (const tag of options.tags) { pipeline.sadd; pipeline.expire } *)
RECURSIVE TagPipeline(_, _, _, _)
TagPipeline(r, tags, key, ttl) ==
  IF tags = <<>> THEN r
  ELSE TagPipeline(RedisExpire(RedisSadd(r, Head(tags), key), Head(tags), ttl),
                   Tail(tags), key, ttl)

(* the same pipeline when Redis rejects its SADD commands: exec() resolves *)
(* with one [err, result] pair per command, and the EXPIREs still run     *)
RECURSIVE ExpirePipeline(_, _, _)
ExpirePipeline(r, tags, ttl) ==
  IF tags = <<>> THEN r
  ELSE ExpirePipeline(RedisExpire(r, Head(tags), ttl), Tail(tags), ttl)

(* a set that ignores options.ttl *)
EffectiveTTL_default(options) == cacheTTL_default

EffectiveTTL(options) == IF options.ttl # 0 THEN options.ttl ELSE cacheTTL_default

(* a set whose JSON.stringify is outside the try block *)
set_unguarded(w, key, value, options, fail) ==
  IF ~w.isConnected THEN [w |-> w, ret |-> FALSE, raised |-> FALSE]
  ELSE LET ttl        == EffectiveTTL(options)
           serialized == JSONstringify(value)
       IN
    IF serialized = Throws THEN [w |-> w, ret |-> FALSE, raised |-> TRUE]
    ELSE IF fail = "setex" THEN [w |-> CountError(w), ret |-> FALSE, raised |-> FALSE]
    ELSE LET w1 == [w EXCEPT !.r = RedisSetex(@, key, ttl, serialized)] IN
      IF Len(options.tags) > 0 /\ fail = "pipeline"
      THEN [w |-> CountError(w1), ret |-> FALSE, raised |-> FALSE]
      ELSE IF Len(options.tags) > 0 /\ fail = "sadd"
      THEN [w |-> [w1 EXCEPT !.r = ExpirePipeline(@, options.tags, ttl),
                              !.stats.sets = @ + 1],
            ret |-> TRUE, raised |-> FALSE]
      ELSE [w |-> [w1 EXCEPT !.r = TagPipeline(@, options.tags, key, ttl),
                              !.stats.sets = @ + 1],
            ret |-> TRUE, raised |-> FALSE]

set(w, key, value, options, fail) ==
  IF ~w.isConnected THEN [w |-> w, ret |-> FALSE, raised |-> FALSE]
  ELSE LET ttl        == EffectiveTTL(options)
           serialized == JSONstringify(value)
       IN
    IF serialized = Throws THEN [w |-> CountError(w), ret |-> FALSE, raised |-> FALSE]
    ELSE IF fail = "setex" THEN [w |-> CountError(w), ret |-> FALSE, raised |-> FALSE]
    ELSE LET w1 == [w EXCEPT !.r = RedisSetex(@, key, ttl, serialized)] IN
      IF Len(options.tags) > 0 /\ fail = "pipeline"
      THEN [w |-> CountError(w1), ret |-> FALSE, raised |-> FALSE]
      ELSE IF Len(options.tags) > 0 /\ fail = "sadd"
      THEN [w |-> [w1 EXCEPT !.r = ExpirePipeline(@, options.tags, ttl),
                              !.stats.sets = @ + 1],
            ret |-> TRUE, raised |-> FALSE]
      ELSE [w |-> [w1 EXCEPT !.r = TagPipeline(@, options.tags, key, ttl),
                              !.stats.sets = @ + 1],
            ret |-> TRUE, raised |-> FALSE]

(* a delete that counts only the keys it removed *)
delete_removed(w, key, fail) ==
  IF ~w.isConnected THEN [w |-> w, ret |-> FALSE]
  ELSE IF fail = "del" THEN [w |-> CountError(w), ret |-> FALSE]
  ELSE [w |-> [w EXCEPT !.r = RedisDelKeys(@, {key}),
                        !.stats.deletes = @ + RedisDelCount(w.r, {key})],
        ret |-> RedisDelCount(w.r, {key}) > 0]

delete(w, key, fail) ==
  IF ~w.isConnected THEN [w |-> w, ret |-> FALSE]
  ELSE IF fail = "del" THEN [w |-> CountError(w), ret |-> FALSE]
  ELSE [w |-> [w EXCEPT !.r = RedisDelKeys(@, {key}), !.stats.deletes = @ + 1],
        ret |-> RedisDelCount(w.r, {key}) > 0]

(* a deleteMany that answers with the number of keys it was given *)
deleteMany_given(w, keys, fail) ==
  IF ~w.isConnected \/ keys = {} THEN [w |-> w, ret |-> 0]
  ELSE IF fail = "del" THEN [w |-> CountError(w), ret |-> 0]
  ELSE [w |-> [w EXCEPT !.r = RedisDelKeys(@, keys),
                        !.stats.deletes = @ + Cardinality(keys)],
        ret |-> Cardinality(keys)]

deleteMany(w, keys, fail) ==
  IF ~w.isConnected \/ keys = {} THEN [w |-> w, ret |-> 0]
  ELSE IF fail = "del" THEN [w |-> CountError(w), ret |-> 0]
  ELSE LET result == RedisDelCount(w.r, keys) IN
       [w |-> [w EXCEPT !.r = RedisDelKeys(@, keys), !.stats.deletes = @ + result],
        ret |-> result]

SeqRange(q) == {q[i] : i \in 1..Len(q)}

invalidateByTags(w, tags, fail) ==
  IF ~w.isConnected \/ Len(tags) = 0 THEN [w |-> w, ret |-> 0]
  ELSE IF fail = "smembers" THEN [w |-> CountError(w), ret |-> 0]
  ELSE LET allKeys == UNION {RedisSmembers(w.r, t) : t \in SeqRange(tags)} IN
    IF allKeys # {}
    THEN LET d == deleteMany(w, allKeys, fail) IN
      IF fail = "deltags" THEN [w |-> CountError(d.w), ret |-> 0]
      ELSE [w |-> [d.w EXCEPT !.r = RedisDelTags(@, SeqRange(tags))], ret |-> d.ret]
    ELSE [w |-> w, ret |-> 0]

(* TTL: -2 for a key that does not exist *)
RedisTtl(r, key) == IF Live(r.kv[key]) THEN r.kv[key].ttl ELSE -2

(* exists that asks the backend whatever the connection *)
exists_unguarded(w, key, fail) ==
  IF fail = "exists" THEN [w |-> CountError(w), ret |-> FALSE]
  ELSE [w |-> w, ret |-> Live(w.r.kv[key])]

exists(w, key, fail) ==
  IF ~w.isConnected THEN [w |-> w, ret |-> FALSE]
  ELSE IF fail = "exists" THEN [w |-> CountError(w), ret |-> FALSE]
  ELSE [w |-> w, ret |-> Live(w.r.kv[key])]

ttl(w, key, fail) ==
  IF ~w.isConnected THEN [w |-> w, ret |-> -1]
  ELSE IF fail = "ttl" THEN [w |-> CountError(w), ret |-> -1]
  ELSE [w |-> w, ret |-> RedisTtl(w.r, key)]

(* a reset of the counters that leaves hitRate as it is *)
resetStats_counters(w) == [w EXCEPT !.stats = [ZeroStats EXCEPT !.hitRate = w.stats.hitRate]]

resetStats(w) == [w EXCEPT !.stats = ZeroStats]

(* return { ...this.stats }: the object handed out has the properties of   *)
(* this.stats and is another object (alias is false)                       *)
getStats(w) == [alias |-> FALSE, obj |-> w.stats]

(* factory() either resolves with a value or rejects (made = Throws).      *)
(* raised: the promise getOrSet returns is rejected; calls: how often      *)
(* factory was invoked; stored: what the inner set returned.  The awaits   *)
(* of get, factory and set are outside any try block, so a rejection of    *)
(* any of them rejects getOrSet.                                           *)
getOrSet(w, key, made, options, failGet, failSet) ==
  LET g == get(w, key, failGet) IN
  IF g.ret # "null"
  THEN [w |-> g.w, ret |-> g.ret, raised |-> FALSE, calls |-> 0, stored |-> FALSE]
  ELSE IF made = Throws
  THEN [w |-> g.w, ret |-> Throws, raised |-> TRUE, calls |-> 1, stored |-> FALSE]
  ELSE LET s == set(g.w, key, made, options, failSet) IN
       IF s.raised
       THEN [w |-> s.w, ret |-> Throws, raised |-> TRUE, calls |-> 1, stored |-> FALSE]
       ELSE [w |-> s.w, ret |-> made, raised |-> FALSE, calls |-> 1, stored |-> s.ret]

----------------------------------------------------------------------------
(* The cache as one sequential client sees it: every action is one call,   *)
(* from invocation to return.                                              *)

Options == [ttl : TTLs, tags : TagLists]

NoWrite == [v |-> "", ttl |-> 0, age |-> 0, valid |-> FALSE]

(* the five counters of the Stats Tracker *)
Counters(st) == <<st.hits, st.misses, st.sets, st.deletes, st.errors>>

(* connected: isConnected when the call began; quiet: the call left the    *)
(* counters and the Redis server as they were                              *)
NoOp == [op |-> "init", key |-> "", tags |-> <<>>, value |-> "",
         ret |-> "", healthy |-> FALSE, pre |-> FALSE, hit |-> FALSE,
         fail |-> "none", counted |-> FALSE, union |-> {}, removed |-> 0,
         calls |-> 0, raised |-> FALSE, stored |-> FALSE, made |-> "",
         connected |-> FALSE, quiet |-> TRUE]

(* the counters grow without limit; a behaviour stops calling the cache    *)
(* once they add up to the bound                                           *)
OpsSoFar == stats.hits + stats.misses + stats.sets + stats.deletes + stats.errors
Below(bound) == OpsSoFar < bound

Apply(w) ==
  /\ isConnected' = w.isConnected
  /\ stats' = w.stats
  /\ kv' = w.r.kv
  /\ tagsets' = w.r.tagsets

(* a call of the cache leaves the other components alone *)
CacheOnly == UNCHANGED <<pc, local, writeOrder, llmClients, avKey,
      requestCount, lastRequestTime, now, lastCall>>

(* setTags follows the keys: a key that is gone carries no tags *)
KeepTags(newkv, proposed) ==
  [k \in Keys |-> IF Live(newkv[k]) THEN proposed[k] ELSE {}]

CacheInit ==
  /\ isConnected = TRUE
  /\ stats = ZeroStats
  /\ kv = [k \in Keys |-> NoEntry]
  /\ tagsets = [t \in Tags |-> NoSet]
  /\ ticks = 0
  /\ lastOp = NoOp
  /\ written = [k \in Keys |-> NoWrite]
  /\ setTags = [k \in Keys |-> {}]
  /\ onlySets = TRUE

Get(key, fail) ==
  /\ CacheOnly
  /\ LET g == get(World, key, fail) IN
       /\ Apply(g.w)
       /\ lastOp' = [NoOp EXCEPT !.op = "get", !.key = key, !.ret = g.ret,
                                  !.connected = isConnected, !.quiet = (g.w = World),
                                  !.counted = (Counters(g.w.stats) # Counters(stats)),
                                  !.healthy = isConnected /\ fail = "none",
                                  !.hit = Live(kv[key])]
  /\ onlySets' = FALSE
  /\ UNCHANGED <<ticks, written, setTags>>

Set(key, value, options, fail) ==
  /\ CacheOnly
  /\ LET s       == set(World, key, value, options, fail)
           healthy == isConnected /\ fail = "none"
       IN
       /\ Apply(s.w)
       /\ lastOp' = [NoOp EXCEPT !.op = "set", !.key = key, !.ret = s.ret,
                                  !.value = value, !.fail = fail,
                                  !.connected = isConnected, !.quiet = (s.w = World),
                                  !.counted = (Counters(s.w.stats) # Counters(stats)),
                                  !.healthy = healthy, !.raised = s.raised]
       /\ written' = [written EXCEPT ![key] =
                        IF healthy
                        THEN [v |-> value, ttl |-> options.ttl, age |-> 0, valid |-> TRUE]
                        ELSE NoWrite]
       /\ setTags' = KeepTags(s.w.r.kv,
                        [setTags EXCEPT ![key] =
                           IF s.ret THEN SeqRange(options.tags)
                           ELSE IF s.w.r.kv[key] # kv[key] THEN {} ELSE @])
       /\ onlySets' = (onlySets /\ healthy)
  /\ UNCHANGED ticks

Delete(key, fail) ==
  /\ CacheOnly
  /\ LET d == delete(World, key, fail) IN
       /\ Apply(d.w)
       /\ lastOp' = [NoOp EXCEPT !.op = "delete", !.key = key, !.ret = d.ret,
                                  !.connected = isConnected, !.quiet = (d.w = World),
                                  !.counted = (Counters(d.w.stats) # Counters(stats)),
                                  !.healthy = isConnected /\ fail = "none"]
       /\ setTags' = KeepTags(d.w.r.kv, setTags)
  /\ written' = [written EXCEPT ![key] = NoWrite]
  /\ onlySets' = FALSE
  /\ UNCHANGED ticks

InvalidateByTags(tags, fail) ==
  /\ CacheOnly
  /\ LET i == invalidateByTags(World, tags, fail) IN
       /\ Apply(i.w)
       /\ lastOp' = [NoOp EXCEPT !.op = "invalidateByTags", !.tags = tags, !.ret = i.ret,
                                  !.fail = fail,
                                  !.union = UNION {RedisSmembers(World.r, t) :
                                                     t \in SeqRange(tags)},
                                  !.removed = Cardinality({k \in Keys :
                                                Live(kv[k]) /\ ~Live(i.w.r.kv[k])}),
                                  !.connected = isConnected, !.quiet = (i.w = World),
                                  !.healthy = isConnected /\ fail = "none",
                                  !.pre = onlySets]
       /\ setTags' = KeepTags(i.w.r.kv, setTags)
       /\ written' = [k \in Keys |-> IF Live(kv[k]) /\ ~Live(i.w.r.kv[k])
                                      THEN NoWrite ELSE written[k]]
  /\ onlySets' = FALSE
  /\ UNCHANGED ticks

GetOrSet(key, made, options, failGet, failSet) ==
  /\ CacheOnly
  /\ LET c       == getOrSet(World, key, made, options, failGet, failSet)
           wrote   == c.calls = 1 /\ made # Throws
           healthy == isConnected /\ failGet = "none" /\ failSet = "none"
       IN
       /\ Apply(c.w)
       /\ lastOp' = [NoOp EXCEPT !.op = "getOrSet", !.key = key, !.made = made,
                                  !.value = IF Live(kv[key]) THEN JSONparse(kv[key].s)
                                            ELSE "",
                                  !.ret = c.ret, !.healthy = healthy,
                                  !.hit = isConnected /\ failGet = "none" /\ Live(kv[key]),
                                  !.calls = c.calls, !.raised = c.raised,
                                  !.stored = c.stored]
       /\ written' = [written EXCEPT ![key] =
                        IF ~wrote THEN @
                        ELSE IF healthy
                        THEN [v |-> made, ttl |-> options.ttl, age |-> 0, valid |-> TRUE]
                        ELSE NoWrite]
       /\ setTags' = KeepTags(c.w.r.kv,
                        [setTags EXCEPT ![key] =
                           IF c.stored THEN SeqRange(options.tags)
                           ELSE IF c.w.r.kv[key] # kv[key] THEN {} ELSE @])
  /\ onlySets' = FALSE
  /\ UNCHANGED ticks

ResetStats ==
  /\ CacheOnly
  /\ stats # ZeroStats
  /\ Apply(resetStats(World))
  /\ lastOp' = [NoOp EXCEPT !.op = "resetStats"]
  /\ UNCHANGED <<ticks, written, setTags, onlySets>>

Exists(key, fail) ==
  /\ CacheOnly
  /\ LET e == exists(World, key, fail) IN
       /\ Apply(e.w)
       /\ lastOp' = [NoOp EXCEPT !.op = "exists", !.key = key, !.ret = e.ret,
                                  !.connected = isConnected, !.quiet = (e.w = World),
                                  !.healthy = isConnected /\ fail = "none"]
  /\ onlySets' = FALSE
  /\ UNCHANGED <<ticks, written, setTags>>

Ttl(key, fail) ==
  /\ CacheOnly
  /\ LET t == ttl(World, key, fail) IN
       /\ Apply(t.w)
       /\ lastOp' = [NoOp EXCEPT !.op = "ttl", !.key = key, !.ret = t.ret,
                                  !.connected = isConnected, !.quiet = (t.w = World),
                                  !.healthy = isConnected /\ fail = "none"]
  /\ onlySets' = FALSE
  /\ UNCHANGED <<ticks, written, setTags>>

DeleteMany(keys, fail) ==
  /\ CacheOnly
  /\ LET d == deleteMany(World, keys, fail) IN
       /\ Apply(d.w)
       /\ lastOp' = [NoOp EXCEPT !.op = "deleteMany", !.ret = d.ret,
                                  !.connected = isConnected, !.quiet = (d.w = World),
                                  !.healthy = isConnected /\ fail = "none"]
       /\ setTags' = KeepTags(d.w.r.kv, setTags)
       /\ written' = [k \in Keys |-> IF Live(kv[k]) /\ ~Live(d.w.r.kv[k])
                                      THEN NoWrite ELSE written[k]]
  /\ onlySets' = FALSE
  /\ UNCHANGED ticks

GetStats ==
  /\ UNCHANGED <<pc, local, writeOrder, llmClients, avKey, requestCount, lastRequestTime, now>>
  /\ lastCall' = [op |-> "getStats", ret |-> getStats(World)]
  /\ lastOp' = [NoOp EXCEPT !.op = "getStats"]
  /\ UNCHANGED <<isConnected, stats, kv, tagsets, ticks, written, setTags, onlySets>>

(* the caller assigns to a property of the object getStats handed out: an  *)
(* alias of this.stats changes the tracker, another object does not        *)
MutateStats ==
  /\ UNCHANGED <<pc, local, writeOrder, llmClients, avKey, requestCount, lastRequestTime, now>>
  /\ lastOp.op = "getStats"
  /\ lastCall' = [lastCall EXCEPT !.op = "mutated", !.ret.obj.hits = @ + 1]
  /\ stats' = IF lastCall.ret.alias THEN [stats EXCEPT !.hits = @ + 1] ELSE stats
  /\ lastOp' = [NoOp EXCEPT !.op = "mutate"]
  /\ UNCHANGED <<isConnected, kv, tagsets, ticks, written, setTags, onlySets>>

(* the client's 'ready' and 'close' events *)
Ready ==
  /\ CacheOnly
  /\ ~isConnected
  /\ isConnected' = TRUE
  /\ lastOp' = [NoOp EXCEPT !.op = "ready"]
  /\ UNCHANGED <<stats, kv, tagsets, ticks, written, setTags, onlySets>>

Close ==
  /\ CacheOnly
  /\ isConnected
  /\ isConnected' = FALSE
  /\ lastOp' = [NoOp EXCEPT !.op = "close"]
  /\ UNCHANGED <<stats, kv, tagsets, ticks, written, setTags, onlySets>>

(* d seconds pass *)
Tick(d) ==
  /\ CacheOnly
  /\ ticks < MaxTicks
  /\ ticks' = ticks + 1
  /\ kv' = RedisElapse([kv |-> kv, tagsets |-> tagsets], d).kv
  /\ tagsets' = RedisElapse([kv |-> kv, tagsets |-> tagsets], d).tagsets
  /\ written' = [k \in Keys |-> IF written[k].valid
                                 THEN [written[k] EXCEPT !.age = @ + d]
                                 ELSE written[k]]
  /\ setTags' = KeepTags(kv', setTags)
  /\ lastOp' = [NoOp EXCEPT !.op = "tick"]
  /\ UNCHANGED <<isConnected, stats, onlySets>>

(* The whole cache, with a backend that may reject any command *)
GetFails == {"none", "get"}
SetFails == {"none", "setex", "pipeline"}
(* the tag pipeline runs only for a tagged set *)
SetFailsOf(options) == IF Len(options.tags) > 0 THEN SetFails ELSE SetFails \ {"pipeline"}
(* the outcomes of a set's backend commands, a rejected SADD among them *)
SetFailsWithin(options) ==
  IF Len(options.tags) > 0 THEN SetFails \cup {"sadd"} ELSE SetFails \ {"pipeline"}
DelFails == {"none", "del"}
InvFails == {"none", "smembers", "del", "deltags"}

SmallOptions == {[ttl |-> 0, tags |-> <<>>], [ttl |-> 2, tags |-> <<>>],
                 [ttl |-> 1, tags |-> <<"t1">>]}

IdleProcs  == pc = 0 /\ local = 0 /\ writeOrder = 0
IdleChains == llmClients = 0 /\ avKey = 0 /\ lastCall = 0
IdleLimiter == requestCount = 0 /\ lastRequestTime = 0 /\ now = 0

Init == CacheInit /\ IdleLimiter /\ IdleProcs /\ IdleChains

Next ==
  \/ Below(MaxOps) /\ \E k \in ClientKeys, f \in GetFails : Get(k, f)
  \/ Below(MaxOps) /\ \E k \in ClientKeys, v \in Values, o \in SmallOptions :
                         \E f \in SetFailsOf(o) : Set(k, v, o, f)
  \/ Below(MaxOps) /\ \E k \in ClientKeys, f \in DelFails : Delete(k, f)
  \/ Ready
  \/ Close
  \/ \E d \in TickSteps : Tick(d)

Spec == Init /\ [][Next]_vars

(* Cache-aside: getOrSet over a cache that earlier calls have filled *)
FillOptions == {[ttl |-> 0, tags |-> <<>>], [ttl |-> 1, tags |-> <<"t1">>]}

NextFill ==
  \/ Below(MaxFillOps) /\ \E k \in ClientKeys, v \in Values :
                             Set(k, v, [ttl |-> 0, tags |-> <<>>], "none")
  \/ Below(MaxFillOps) /\ \E k \in ClientKeys, m \in Values \cup {Throws}, o \in FillOptions,
                             fg \in GetFails :
                             \E fs \in SetFailsOf(o) : GetOrSet(k, m, o, fg, fs)
  \/ Ready
  \/ Close

SpecFill == Init /\ [][NextFill]_vars

(* Every operation, on a backend that connects, disconnects and rejects    *)
(* commands                                                                *)
NextOutage ==
  \/ Below(MaxOps) /\ \E k \in ClientKeys, f \in GetFails : Get(k, f)
  \/ Below(MaxOps) /\ \E k \in ClientKeys, v \in {"a", "cyclic"}, o \in FillOptions :
                         \E f \in SetFailsWithin(o) : Set(k, v, o, f)
  \/ Below(MaxOps) /\ \E k \in ClientKeys, f \in DelFails : Delete(k, f)
  \/ Below(MaxOps) /\ \E ks \in SUBSET ClientKeys, f \in DelFails : DeleteMany(ks, f)
  \/ Below(MaxOps) /\ \E tl \in TagLists, f \in InvFails : InvalidateByTags(tl, f)
  \/ Below(MaxOps) /\ \E k \in ClientKeys, f \in {"none", "exists"} : Exists(k, f)
  \/ Below(MaxOps) /\ \E k \in ClientKeys, f \in {"none", "ttl"} : Ttl(k, f)
  \/ Ready
  \/ Close

SpecOutage == Init /\ [][NextOutage]_vars

(* The counters, on a backend that stays connected and rejects only GET *)
MaxStatOps == 3

NextStats ==
  \/ Below(MaxStatOps) /\ \E k \in ClientKeys, f \in GetFails : Get(k, f)
  \/ Below(MaxStatOps) /\ \E k \in ClientKeys, o \in FillOptions : Set(k, "a", o, "none")
  \/ Below(MaxStatOps) /\ \E k \in ClientKeys : Delete(k, "none")
  \/ ResetStats

SpecStats == Init /\ [][NextStats]_vars

(* The Stats Tracker under every operation, reset from time to time and    *)
(* read by a caller at the end                                             *)
Tracking == lastOp.op \notin {"getStats", "mutate"}

NextTracker ==
  \/ Tracking /\ Below(MaxStatOps) /\ \E k \in ClientKeys, f \in GetFails : Get(k, f)
  \/ Tracking /\ Below(MaxStatOps)
       /\ \E v \in {"a", "cyclic"}, o \in FillOptions :
            \E f \in SetFailsWithin(o) : Set("k1", v, o, f)
  \/ Tracking /\ Below(MaxStatOps) /\ \E k \in ClientKeys, f \in DelFails : Delete(k, f)
  \/ Tracking /\ Below(MaxStatOps) /\ \E f \in DelFails : DeleteMany(ClientKeys, f)
  \/ Tracking /\ Below(MaxStatOps) /\ \E f \in InvFails : InvalidateByTags(<<"t1">>, f)
  \/ Tracking /\ ResetStats
  \/ Tracking /\ GetStats
  \/ MutateStats
  \/ Tracking /\ Ready
  \/ Tracking /\ Close

SpecTracker == Init /\ [][NextTracker]_vars

(* Tags on a healthy backend *)
TagOptions == [ttl : TTLs \ {0}, tags : TagLists]

NextTag ==
  \/ Below(MaxTagOps) /\ \E k \in ClientKeys, o \in TagOptions : Set(k, "a", o, "none")
  \/ Below(MaxTagOps) /\ \E tl \in TagLists : InvalidateByTags(tl, "none")
  \/ Tick(1)

SpecTag == Init /\ [][NextTag]_vars

(* Invalidation by tag on a backend that may reject a command *)
InvalidateOptions == [ttl : TTLs \ {0}, tags : {<<"t1">>, <<"t1", "t2">>}]

NextInvalidate ==
  \/ Below(MaxTagOps) /\ \E k \in ClientKeys, o \in InvalidateOptions :
                            Set(k, "a", o, "none")
  \/ Below(MaxTagOps) /\ \E tl \in TagLists, f \in InvFails : InvalidateByTags(tl, f)
  \/ Tick(1)

SpecInvalidate == Init /\ [][NextInvalidate]_vars

----------------------------------------------------------------------------
(* Concurrent getOrSet calls.  A call runs until its next await; the       *)
(* steps of a call are the replies it awaits: the GET reply, the           *)
(* resolution of factory(), the SETEX reply and the reply of the tag       *)
(* pipeline.  The Redis server applies a command when it replies.          *)

Procs == {"p1", "p2"}
Made  == {"a", "b"}

IdleLocal == [key |-> "", made |-> "", options |-> [ttl |-> 0, tags |-> <<>>],
              cached |-> "", calls |-> 0, ret |-> "", early |-> FALSE]

ProcOnly == UNCHANGED <<isConnected, ticks, lastOp, written, setTags, onlySets,
                        llmClients, avKey, requestCount, lastRequestTime, now, lastCall>>

ProcInit ==
  /\ pc = [p \in Procs |-> "idle"]
  /\ local = [p \in Procs |-> IdleLocal]
  /\ writeOrder = <<>>

(* getOrSet(key, factory, options) is called: get sends GET *)
Call(p, key, made, options) ==
  /\ pc[p] = "idle"
  /\ local' = [local EXCEPT ![p] = [IdleLocal EXCEPT !.key = key, !.made = made,
                                                      !.options = options,
                                                      !.cached = "null",
                                                      !.calls = IF isConnected THEN 0 ELSE 1]]
  /\ pc' = [pc EXCEPT ![p] = IF isConnected THEN "get" ELSE "factory"]
  /\ UNCHANGED <<stats, kv, tagsets, writeOrder>>
  /\ ProcOnly

(* the GET reply: get returns, getOrSet returns the hit or invokes factory *)
GetReply(p) ==
  /\ pc[p] = "get"
  /\ LET g == get(World, local[p].key, "none") IN
     /\ stats' = g.w.stats
     /\ local' = [local EXCEPT ![p].cached = g.ret,
                                ![p].early = (writeOrder = <<>>),
                                ![p].ret = IF g.ret # "null" THEN g.ret ELSE @,
                                ![p].calls = IF g.ret # "null" THEN 0 ELSE 1]
     /\ pc' = [pc EXCEPT ![p] = IF g.ret # "null" THEN "done" ELSE "factory"]
  /\ UNCHANGED <<kv, tagsets, writeOrder>>
  /\ ProcOnly

(* factory() resolves: set serializes the value and sends SETEX *)
FactoryDone(p) ==
  /\ pc[p] = "factory"
  /\ IF ~isConnected
     THEN /\ pc' = [pc EXCEPT ![p] = "done"]
          /\ local' = [local EXCEPT ![p].ret = local[p].made]
          /\ UNCHANGED stats
     ELSE IF JSONstringify(local[p].made) = Throws
     THEN /\ pc' = [pc EXCEPT ![p] = "done"]
          /\ local' = [local EXCEPT ![p].ret = local[p].made]
          /\ stats' = [stats EXCEPT !.errors = @ + 1]
     ELSE /\ pc' = [pc EXCEPT ![p] = "setex"]
          /\ UNCHANGED <<local, stats>>
  /\ UNCHANGED <<kv, tagsets, writeOrder>>
  /\ ProcOnly

(* the SETEX reply: the key is written; a tagged set sends the pipeline *)
SetexReply(p) ==
  /\ pc[p] = "setex"
  /\ kv' = RedisSetex([kv |-> kv, tagsets |-> tagsets], local[p].key,
                      EffectiveTTL(local[p].options), JSONstringify(local[p].made)).kv
  /\ writeOrder' = Append(writeOrder, p)
  /\ IF Len(local[p].options.tags) > 0
     THEN /\ pc' = [pc EXCEPT ![p] = "pipeline"]
          /\ UNCHANGED <<local, stats>>
     ELSE /\ pc' = [pc EXCEPT ![p] = "done"]
          /\ local' = [local EXCEPT ![p].ret = local[p].made]
          /\ stats' = [stats EXCEPT !.sets = @ + 1]
  /\ UNCHANGED tagsets
  /\ ProcOnly

(* the pipeline reply: the key is in its tag sets; set and getOrSet return *)
PipelineReply(p) ==
  /\ pc[p] = "pipeline"
  /\ tagsets' = TagPipeline([kv |-> kv, tagsets |-> tagsets], local[p].options.tags,
                            local[p].key, EffectiveTTL(local[p].options)).tagsets
  /\ pc' = [pc EXCEPT ![p] = "done"]
  /\ local' = [local EXCEPT ![p].ret = local[p].made]
  /\ stats' = [stats EXCEPT !.sets = @ + 1]
  /\ UNCHANGED <<kv, writeOrder>>
  /\ ProcOnly

ProcStep(p) ==
  \/ GetReply(p)
  \/ FactoryDone(p)
  \/ SetexReply(p)
  \/ PipelineReply(p)

InitConc == CacheInit /\ IdleLimiter /\ ProcInit /\ IdleChains

NextConc ==
  \/ \E p \in Procs, k \in ClientKeys, m \in Made, o \in FillOptions : Call(p, k, m, o)
  \/ \E p \in Procs : GetReply(p)
  \/ \E p \in Procs : FactoryDone(p)
  \/ \E p \in Procs : SetexReply(p)
  \/ \E p \in Procs : PipelineReply(p)

SpecConc == InitConc /\ [][NextConc]_vars

----------------------------------------------------------------------------
(* The connection of the cache service from its construction on.  The      *)
(* constructor leaves isConnected false; the handlers of the client's      *)
(* events and disconnect() assign it.  The server keeps its entries while  *)
(* the connection is down.  local holds what the callers had written when  *)
(* the connection last ended.                                              *)
MaxReconnectOps == 3   \* counted operations between and around the outages

NoOutage == [written |-> [k \in Keys |-> NoWrite], sets |-> 0, deletes |-> 0,
             closed |-> FALSE, quit |-> FALSE]

(* the entries and the counters at the moment the connection ends *)
AtOutage == [NoOutage EXCEPT !.written = written, !.sets = stats.sets,
                             !.deletes = stats.deletes, !.closed = TRUE]

ConnectionOnly == UNCHANGED <<pc, writeOrder, llmClients, avKey,
      requestCount, lastRequestTime, now, lastCall,
      kv, tagsets, ticks, written, setTags, onlySets>>

(* this.client.on('ready', ...); after quit the client connects no more *)
OnReady ==
  /\ ~isConnected /\ ~local.quit
  /\ isConnected' = TRUE
  /\ lastOp' = [NoOp EXCEPT !.op = "ready"]
  /\ UNCHANGED <<stats, local>>
  /\ ConnectionOnly

(* this.client.on('close', ...) *)
OnClose ==
  /\ isConnected
  /\ isConnected' = FALSE
  /\ local' = [AtOutage EXCEPT !.quit = local.quit]
  /\ lastOp' = [NoOp EXCEPT !.op = "close"]
  /\ UNCHANGED stats
  /\ ConnectionOnly

(* this.client.on('error', ...) *)
OnError ==
  /\ stats' = [stats EXCEPT !.errors = @ + 1]
  /\ lastOp' = [NoOp EXCEPT !.op = "error"]
  /\ UNCHANGED <<isConnected, local>>
  /\ ConnectionOnly

(* disconnect() leaves the flag as it is *)
Disconnect_flagKept ==
  /\ ~local.quit
  /\ isConnected' = isConnected
  /\ local' = [AtOutage EXCEPT !.quit = TRUE]
  /\ lastOp' = [NoOp EXCEPT !.op = "disconnect"]
  /\ UNCHANGED stats
  /\ ConnectionOnly

(* disconnect(), once quit() has resolved; the constructor has assigned    *)
(* the client                                                              *)
Disconnect ==
  /\ ~local.quit
  /\ isConnected' = FALSE
  /\ local' = [AtOutage EXCEPT !.quit = TRUE]
  /\ lastOp' = [NoOp EXCEPT !.op = "disconnect"]
  /\ UNCHANGED stats
  /\ ConnectionOnly

(* private isConnected = false, and the constructor's connect() only       *)
(* registers the handlers                                                  *)
ConstructedInit ==
  /\ isConnected = FALSE
  /\ stats = ZeroStats
  /\ kv = [k \in Keys |-> NoEntry]
  /\ tagsets = [t \in Tags |-> NoSet]
  /\ ticks = 0
  /\ lastOp = NoOp
  /\ written = [k \in Keys |-> NoWrite]
  /\ setTags = [k \in Keys |-> {}]
  /\ onlySets = TRUE

InitReconnect ==
  /\ ConstructedInit /\ IdleLimiter /\ IdleChains
  /\ pc = 0 /\ writeOrder = 0
  /\ local = NoOutage

NextReconnect ==
  \/ Below(MaxReconnectOps) /\ Get("k1", "none")
  \/ Below(MaxReconnectOps) /\ \E o \in FillOptions : Set("k1", "a", o, "none")
  \/ Below(MaxReconnectOps) /\ Delete("k1", "none")
  \/ Below(MaxReconnectOps) /\ OnError
  \/ OnReady
  \/ OnClose
  \/ Disconnect
  \/ \E d \in TickSteps : Tick(d)

SpecReconnect == InitReconnect /\ [][NextReconnect]_vars

----------------------------------------------------------------------------
(* A set with tags and an invalidateByTags that run concurrently.  Each    *)
(* runs until its next await; a command takes effect when its reply        *)
(* arrives.  Sets that completed earlier have filled the cache.            *)
Racers == {"set", "invalidate"}

MaxEarlierSets == 2

RaceOptions == {[ttl |-> 0, tags |-> <<"t1">>], [ttl |-> 0, tags |-> <<"t1", "t2">>]}
RaceTagLists == {<<"t1">>, <<"t1", "t2">>}

RaceLocal == [key |-> "", value |-> "", options |-> [ttl |-> 0, tags |-> <<>>],
              tags |-> <<>>, next |-> 1, allKeys |-> {}, deleted |-> 0, ret |-> 0]

RaceInit ==
  /\ pc = [p \in Racers |-> "idle"]
  /\ local = [p \in Racers |-> RaceLocal]
  /\ writeOrder = <<>>

(* a set that has completed before either of the two calls began *)
EarlierSet(key, options) ==
  /\ \A p \in Racers : pc[p] = "idle"
  /\ stats.sets < MaxEarlierSets
  /\ LET s == set(World, key, "a", options, "none") IN
       /\ stats' = s.w.stats
       /\ kv' = s.w.r.kv
       /\ tagsets' = s.w.r.tagsets
  /\ UNCHANGED <<pc, local, writeOrder>>
  /\ ProcOnly

(* set(key, value, options) is called: the value is serialized and SETEX   *)
(* is sent                                                                 *)
SetCalled(key, options) ==
  /\ pc["set"] = "idle"
  /\ isConnected
  /\ local' = [local EXCEPT !["set"] = [RaceLocal EXCEPT !.key = key, !.value = "b",
                                                         !.options = options]]
  /\ pc' = [pc EXCEPT !["set"] = "setex"]
  /\ UNCHANGED <<stats, kv, tagsets, writeOrder>>
  /\ ProcOnly

(* the SETEX reply: the key is written and the tag pipeline is sent *)
SetSetexReply ==
  /\ pc["set"] = "setex"
  /\ kv' = RedisSetex([kv |-> kv, tagsets |-> tagsets], local["set"].key,
                      EffectiveTTL(local["set"].options),
                      JSONstringify(local["set"].value)).kv
  /\ pc' = [pc EXCEPT !["set"] = "pipeline"]
  /\ writeOrder' = Append(writeOrder, "setex")
  /\ UNCHANGED <<stats, tagsets, local>>
  /\ ProcOnly

(* the reply of pipeline.exec(): the key is in its tag sets; set returns *)
SetPipelineReply ==
  /\ pc["set"] = "pipeline"
  /\ tagsets' = TagPipeline([kv |-> kv, tagsets |-> tagsets], local["set"].options.tags,
                            local["set"].key, EffectiveTTL(local["set"].options)).tagsets
  /\ stats' = [stats EXCEPT !.sets = @ + 1]
  /\ pc' = [pc EXCEPT !["set"] = "done"]
  /\ writeOrder' = Append(writeOrder, "sadd")
  /\ UNCHANGED <<kv, local>>
  /\ ProcOnly

(* invalidateByTags(tags) is called: SMEMBERS of the first tag is sent *)
InvalidateCalled(tags) ==
  /\ pc["invalidate"] = "idle"
  /\ isConnected /\ Len(tags) > 0
  /\ local' = [local EXCEPT !["invalidate"] = [RaceLocal EXCEPT !.tags = tags]]
  /\ pc' = [pc EXCEPT !["invalidate"] = "smembers"]
  /\ UNCHANGED <<stats, kv, tagsets, writeOrder>>
  /\ ProcOnly

(* a SMEMBERS reply: its keys join allKeys; after the last tag the keys    *)
(* found go to deleteMany, and without any the call returns 0              *)
SmembersReply ==
  /\ pc["invalidate"] = "smembers"
  /\ LET l    == local["invalidate"]
         keys == l.allKeys \cup RedisSmembers([kv |-> kv, tagsets |-> tagsets],
                                              l.tags[l.next])
     IN /\ local' = [local EXCEPT !["invalidate"].allKeys = keys,
                                   !["invalidate"].next = @ + 1]
        /\ pc' = [pc EXCEPT !["invalidate"] =
                    IF l.next < Len(l.tags) THEN "smembers"
                    ELSE IF keys # {} THEN "del" ELSE "done"]
  /\ writeOrder' = Append(writeOrder, "smembers")
  /\ UNCHANGED <<stats, kv, tagsets>>
  /\ ProcOnly

(* the DEL reply inside deleteMany: the keys are gone; DEL of the tag sets *)
(* is sent                                                                 *)
DelKeysReply ==
  /\ pc["invalidate"] = "del"
  /\ LET d == deleteMany(World, local["invalidate"].allKeys, "none") IN
       /\ kv' = d.w.r.kv
       /\ stats' = d.w.stats
       /\ local' = [local EXCEPT !["invalidate"].deleted = d.ret]
  /\ pc' = [pc EXCEPT !["invalidate"] = "deltags"]
  /\ writeOrder' = Append(writeOrder, "del")
  /\ UNCHANGED tagsets
  /\ ProcOnly

(* the reply of DEL for the tag sets: invalidateByTags returns deleted *)
DelTagsReply ==
  /\ pc["invalidate"] = "deltags"
  /\ tagsets' = RedisDelTags([kv |-> kv, tagsets |-> tagsets],
                             SeqRange(local["invalidate"].tags)).tagsets
  /\ local' = [local EXCEPT !["invalidate"].ret = local["invalidate"].deleted]
  /\ pc' = [pc EXCEPT !["invalidate"] = "done"]
  /\ writeOrder' = Append(writeOrder, "deltags")
  /\ UNCHANGED <<stats, kv>>
  /\ ProcOnly

InitRace == CacheInit /\ IdleLimiter /\ RaceInit /\ IdleChains

NextRace ==
  \/ \E k \in ClientKeys, o \in RaceOptions : EarlierSet(k, o)
  \/ \E k \in ClientKeys, o \in RaceOptions : SetCalled(k, o)
  \/ SetSetexReply
  \/ SetPipelineReply
  \/ \E tags \in RaceTagLists : InvalidateCalled(tags)
  \/ SmembersReply
  \/ DelKeysReply
  \/ DelTagsReply

SpecRace == InitRace /\ [][NextRace]_vars

----------------------------------------------------------------------------
(* LLMService.generateAgentPerspective and its synthetic fallback          *)

Providers == <<"openai", "anthropic", "google">>
ProviderSet == {Providers[i] : i \in 1..Len(Providers)}
Position(p) == CHOOSE i \in 1..Len(Providers) : Providers[i] = p

AgentTypes == {"Fundamental Analyst", "Optimist Analyst", "Skeptical Analyst",
               "Risk Analyst"}

(* A metric of the FinancialContext is a number, is missing (undefined) or *)
(* is null (a JSON body can carry null for a field).  Prices and           *)
(* the P/E ratio are whole numbers; the ratios revenueGrowth,              *)
(* profitMargin, debtToEquity and roe are counted in hundredths.           *)
Num(n) == [defined |-> TRUE, null |-> FALSE, n |-> n]
Missing == [defined |-> FALSE, null |-> FALSE, n |-> 0]
NullMetric == [defined |-> FALSE, null |-> TRUE, n |-> 0]
(* a comparison with undefined is false; in a comparison null counts as 0 *)
Lt(m, c) == IF m.defined THEN m.n < c ELSE m.null /\ 0 < c
Gt(m, c) == IF m.defined THEN m.n > c ELSE m.null /\ 0 > c

CtxStrong == [currentPrice |-> Num(100), marketCap |-> Num(50), peRatio |-> Num(15),
              revenueGrowth |-> Num(20), profitMargin |-> Num(25),
              debtToEquity |-> Num(30), roe |-> Num(25), beta |-> Num(1),
              fundamentals |-> TRUE]
CtxWeak == [currentPrice |-> Num(100), marketCap |-> Num(50), peRatio |-> Num(40),
            revenueGrowth |-> Num(-5), profitMargin |-> Num(5),
            debtToEquity |-> Num(200), roe |-> Num(5), beta |-> Num(2),
            fundamentals |-> TRUE]
CtxNoPE == [CtxStrong EXCEPT !.peRatio = Missing]
CtxNoGrowth == [CtxWeak EXCEPT !.revenueGrowth = Missing]
CtxNoFundamentals == [CtxStrong EXCEPT !.fundamentals = FALSE]
Contexts == {CtxStrong, CtxWeak, CtxNoPE, CtxNoGrowth, CtxNoFundamentals}

(* buildAgentPrompt calls toFixed on currentPrice, peRatio, debtToEquity   *)
(* and beta, and Object.entries on fundamentals; each throws a TypeError   *)
(* on undefined.  The other metrics enter arithmetic first and print NaN.  *)
buildAgentPromptThrows(ctx) ==
  \/ ~ctx.currentPrice.defined
  \/ ~ctx.peRatio.defined
  \/ ~ctx.debtToEquity.defined
  \/ ~ctx.beta.defined
  \/ ~ctx.fundamentals

(* a field that a parsed JSON object does not have *)
Absent == "<<undefined>>"

(* What a provider call comes to: it throws (network error, timeout, no    *)
(* JSON in the reply, JSON.parse fails), or the reply parses to null, or   *)
(* it parses to an object with these fields.                               *)
Threw == [kind |-> "throw", recommendation |-> Absent, bias |-> Absent,
          keyPoints |-> Absent]
ParsedNull == [kind |-> "null", recommendation |-> Absent, bias |-> Absent,
               keyPoints |-> Absent]
Object(recommendation, bias, keyPoints) ==
  [kind |-> "object", recommendation |-> recommendation, bias |-> bias,
   keyPoints |-> keyPoints]

WellFormed == {Object("Buy", "Bullish", "points"), Object("Sell", "bearish", "points")}
Malformed == {Object("Hold", Absent, "points"), Object(Absent, "Neutral", Absent)}
Outcomes == {Threw, ParsedNull} \cup WellFormed \cup Malformed
Unused == [kind |-> "unused", recommendation |-> Absent, bias |-> Absent,
           keyPoints |-> Absent]

(* let response: LLMResponse | null = null *)
NoResponse == [truthy |-> FALSE, recommendation |-> Absent, bias |-> Absent,
               keyPoints |-> Absent, reasoning |-> Absent]

(* try { response = await this.callX(prompt) } catch { }: the reasoning    *)
(* text of a reply names the provider that wrote it                        *)
Reply(response, outcome, p) ==
  CASE outcome.kind = "object" ->
         [truthy |-> TRUE, recommendation |-> outcome.recommendation,
          bias |-> outcome.bias, keyPoints |-> outcome.keyPoints, reasoning |-> p]
    [] outcome.kind = "null" -> NoResponse
    [] OTHER -> response

(* a score in which the risk analyst is marked down further than the       *)
(* skeptic                                                                 *)
Score_riskLast(agentType, ctx) ==
  LET pe == IF Gt(ctx.peRatio, 0) /\ Lt(ctx.peRatio, 20) THEN 2
            ELSE IF Gt(ctx.peRatio, 0) /\ Lt(ctx.peRatio, 30) THEN 1 ELSE 0
      rg == IF Gt(ctx.revenueGrowth, 15) THEN 2
            ELSE IF Gt(ctx.revenueGrowth, 5) THEN 1 ELSE 0
      pm == IF Gt(ctx.profitMargin, 20) THEN 2
            ELSE IF Gt(ctx.profitMargin, 10) THEN 1 ELSE 0
      de == IF Lt(ctx.debtToEquity, 50) THEN 2
            ELSE IF Lt(ctx.debtToEquity, 100) THEN 1 ELSE 0
      ro == IF Gt(ctx.roe, 20) THEN 2
            ELSE IF Gt(ctx.roe, 10) THEN 1 ELSE 0
      adj == CASE agentType = "Optimist Analyst"  -> 2
               [] agentType = "Skeptical Analyst" -> -2
               [] agentType = "Risk Analyst"      -> -3
               [] OTHER                           -> 0
  IN pe + rg + pm + de + ro + adj

(* the score of generateIntelligentMock *)
Score(agentType, ctx) ==
  LET pe == IF Gt(ctx.peRatio, 0) /\ Lt(ctx.peRatio, 20) THEN 2
            ELSE IF Gt(ctx.peRatio, 0) /\ Lt(ctx.peRatio, 30) THEN 1 ELSE 0
      rg == IF Gt(ctx.revenueGrowth, 15) THEN 2
            ELSE IF Gt(ctx.revenueGrowth, 5) THEN 1 ELSE 0
      pm == IF Gt(ctx.profitMargin, 20) THEN 2
            ELSE IF Gt(ctx.profitMargin, 10) THEN 1 ELSE 0
      de == IF Lt(ctx.debtToEquity, 50) THEN 2
            ELSE IF Lt(ctx.debtToEquity, 100) THEN 1 ELSE 0
      ro == IF Gt(ctx.roe, 20) THEN 2
            ELSE IF Gt(ctx.roe, 10) THEN 1 ELSE 0
      adj == CASE agentType = "Optimist Analyst"  -> 2
               [] agentType = "Skeptical Analyst" -> -2
               [] agentType = "Risk Analyst"      -> -1
               [] OTHER                           -> 0
  IN pe + rg + pm + de + ro + adj

generateIntelligentMock(agentType, ctx) ==
  LET score == Score(agentType, ctx) IN
  [truthy |-> TRUE,
   recommendation |-> IF score >= 7 THEN "Buy" ELSE IF score >= 4 THEN "Hold" ELSE "Sell",
   bias |-> IF score >= 7 THEN "Bullish" ELSE IF score >= 4 THEN "Neutral" ELSE "Bearish",
   keyPoints |-> "points",
   reasoning |-> "mock"]

toLowerCase(s) ==
  CASE s \in {"Bullish", "bullish"} -> "bullish"
    [] s \in {"Bearish", "bearish"} -> "bearish"
    [] s \in {"Neutral", "neutral"} -> "neutral"
    [] OTHER -> s

mapBias(bias) ==
  CASE toLowerCase(bias) = "bullish" -> "Bullish"
    [] toLowerCase(bias) = "bearish" -> "Bearish"
    [] OTHER -> "Neutral"

NoPerspective == [agentType |-> "", recommendation |-> Absent, reasoning |-> Absent,
                  keyPoints |-> Absent, bias |-> Absent]

(* a later provider is tried whatever the earlier ones returned *)
ShouldTry_always(response, client) == client

(* if (!response && this.anthropicClient), if (!response && this.googleClient) *)
ShouldTry(response, client) == ~response.truthy /\ client

(* out[p] is what a call of provider p comes to, if it is made *)
generateAgentPerspective(clients, agentType, ctx, out) ==
  IF buildAgentPromptThrows(ctx)
  THEN [raised |-> TRUE, invoked |-> <<>>, result |-> NoPerspective]
  ELSE
    LET t1 == "openai" \in clients
        r1 == IF t1 THEN Reply(NoResponse, out["openai"], "openai") ELSE NoResponse
        t2 == ShouldTry(r1, "anthropic" \in clients)
        r2 == IF t2 THEN Reply(r1, out["anthropic"], "anthropic") ELSE r1
        t3 == ShouldTry(r2, "google" \in clients)
        r3 == IF t3 THEN Reply(r2, out["google"], "google") ELSE r2
        response == IF ~r3.truthy THEN generateIntelligentMock(agentType, ctx) ELSE r3
        invoked == (IF t1 THEN <<"openai">> ELSE <<>>)
                     \o (IF t2 THEN <<"anthropic">> ELSE <<>>)
                     \o (IF t3 THEN <<"google">> ELSE <<>>)
    IN
    (* mapBias(undefined): bias.toLowerCase() throws a TypeError *)
    IF response.bias = Absent
    THEN [raised |-> TRUE, invoked |-> invoked, result |-> NoPerspective]
    ELSE [raised |-> FALSE, invoked |-> invoked,
          result |-> [agentType |-> agentType,
                      recommendation |-> response.recommendation,
                      reasoning |-> response.reasoning,
                      keyPoints |-> response.keyPoints,
                      bias |-> mapBias(response.bias)]]

NoCall == [op |-> "none"]

(* the first provider asked by a call did not supply its result *)
FirstFailed(call) ==
  \/ /\ call.op = "generateAgentPerspective"
     /\ call.invoked # <<>>
     /\ call.out[Head(call.invoked)].kind # "object"
  \/ /\ call.op = "getFundamentals"
     /\ ~call.hit
     /\ call.invoked = <<"alphaVantage", "yahoo">>

(* a call of a chain that does not use the cache *)
ChainOnly == UNCHANGED <<isConnected, stats, kv, tagsets, ticks, lastOp, written,
                         setTags, onlySets, pc, local, writeOrder, llmClients, avKey,
      requestCount, lastRequestTime, now>>

(* the outcomes of the providers that have a client *)
OutcomesFor(clients, outcomes) ==
  {out \in [ProviderSet -> outcomes \cup {Unused}] :
     \A p \in ProviderSet : (out[p] = Unused) <=> (p \notin clients)}

GenerateAgentPerspective(agentType, ctx, out) ==
  /\ ChainOnly
  /\ LET g == generateAgentPerspective(llmClients, agentType, ctx, out) IN
       lastCall' = [op |-> "generateAgentPerspective", agentType |-> agentType,
                    context |-> ctx, out |-> out, invoked |-> g.invoked,
                    raised |-> g.raised, result |-> g.result,
                    after |-> FirstFailed(lastCall)]

(* the constructor creates a client for each API key of the environment *)
LLMInit ==
  /\ llmClients \in SUBSET ProviderSet
  /\ avKey = FALSE
  /\ lastCall = NoCall

InitLLM == CacheInit /\ IdleLimiter /\ IdleProcs /\ LLMInit

LLMAgents == {"Fundamental Analyst", "Skeptical Analyst"}
LLMContexts == {CtxStrong, CtxNoPE, CtxNoGrowth}

NextLLM ==
  \E a \in LLMAgents, c \in LLMContexts :
    \E out \in OutcomesFor(llmClients, Outcomes) : GenerateAgentPerspective(a, c, out)

SpecLLM == InitLLM /\ [][NextLLM]_vars

----------------------------------------------------------------------------
(* MarketService.getFundamentals                                           *)

(* every map counts as data *)
NoData_never(f) == FALSE

(* !fundamentals || Object.keys(fundamentals).length === 0; the map that   *)
(* was never assigned (null) is the map without fields                     *)
NoData(f) == DOMAIN f = {}

(* the third argument of cacheService.set is the number 300, which has     *)
(* neither a ttl nor a tags property                                       *)
OptionsOf300 == [ttl |-> 0, tags |-> <<>>]

(* Alpha Vantage is passed over *)
UseAlphaVantage_never(key) == FALSE

(* if (process.env.ALPHA_VANTAGE_API_KEY) *)
UseAlphaVantage(key) == key

(* av, yahoo: what the requests to the two providers come to, if made *)
getFundamentals(w, key, symbol, av, yahoo, failGet, failSet) ==
  LET g == get(w, cacheKey(symbol), failGet) IN
  IF g.ret # "null"
  THEN (* a parse failure is caught by the outer try *)
       LET parsed == JSONparseMap(g.ret) IN
       [w |-> g.w, hit |-> TRUE, invoked |-> <<>>,
        source |-> IF parsed.ok THEN "cache" ELSE "mock",
        ret |-> IF parsed.ok THEN parsed.value ELSE generateMockFundamentals(symbol)]
  ELSE
    LET t1 == UseAlphaVantage(key)
        f1 == IF t1 THEN getComprehensiveFundamentals(av) ELSE EmptyMap
        t2 == NoData(f1)
        f2 == IF t2 /\ yahoo # "throw" THEN yahooGetFundamentals(yahoo) ELSE f1
        f3 == IF NoData(f2) THEN generateMockFundamentals(symbol) ELSE f2
        s  == set(g.w, cacheKey(symbol), JSONstringifyMap(f3), OptionsOf300, failSet)
    IN [w |-> s.w, hit |-> FALSE,
        invoked |-> (IF t1 THEN <<"alphaVantage">> ELSE <<>>)
                      \o (IF t2 THEN <<"yahoo">> ELSE <<>>),
        source |-> IF s.raised THEN "mock"
                   ELSE IF ~NoData(f1) THEN "alphaVantage"
                   ELSE IF ~NoData(f2) THEN "yahoo" ELSE "mock",
        (* a failure inside the outer try is answered with the mock *)
        ret |-> IF s.raised THEN generateMockFundamentals(symbol) ELSE f3]

(* the state once getFundamentals has returned c *)
FundamentalsReturned(c, key, healthy, symbol, av, yahoo) ==
  /\ Apply(c.w)
  /\ lastOp' = [NoOp EXCEPT !.op = "getFundamentals", !.key = key,
                             !.healthy = healthy, !.hit = c.hit]
  /\ written' = [written EXCEPT ![key] =
                   IF c.hit THEN @
                   ELSE IF healthy
                   THEN [v |-> JSONstringifyMap(c.ret), ttl |-> OptionsOf300.ttl,
                         age |-> 0, valid |-> TRUE]
                   ELSE NoWrite]
  /\ setTags' = KeepTags(c.w.r.kv,
                   [setTags EXCEPT ![key] =
                      IF c.w.r.kv[key] # kv[key] THEN {} ELSE @])
  /\ lastCall' = [op |-> "getFundamentals", symbol |-> symbol, av |-> av,
                  yahoo |-> yahoo, key |-> avKey, hit |-> c.hit,
                  invoked |-> c.invoked, source |-> c.source, ret |-> c.ret,
                  cached |-> IF Live(kv[key]) THEN kv[key].s ELSE Nil,
                  after |-> FirstFailed(lastCall)]

GetFundamentals(symbol, av, yahoo, failGet, failSet) ==
  /\ UNCHANGED <<ticks, pc, local, writeOrder, llmClients, avKey, requestCount, lastRequestTime, now>>
  /\ FundamentalsReturned(
       getFundamentals(World, avKey, symbol, av, yahoo, failGet, failSet),
       cacheKey(symbol), isConnected /\ failGet = "none" /\ failSet = "none",
       symbol, av, yahoo)
  /\ onlySets' = FALSE

(* Both chains, in a process whose environment holds any of the API keys   *)
ChainInit ==
  /\ llmClients \in SUBSET ProviderSet
  /\ avKey \in BOOLEAN
  /\ lastCall = NoCall

InitChain == CacheInit /\ IdleLimiter /\ IdleProcs /\ ChainInit

MaxChainOps == 3       \* counted cache operations of the chain runs

PlainOutcomes == {Threw, ParsedNull, Object("Buy", "Bullish", "points")}

NextChain ==
  \/ \E c \in {CtxStrong, CtxNoPE} : \E out \in OutcomesFor(llmClients, PlainOutcomes) :
       GenerateAgentPerspective("Fundamental Analyst", c, out)
  \/ Below(MaxChainOps) /\ \E s \in Symbols, av \in AVOutcomes, y \in YahooOutcomes :
       GetFundamentals(s, av, y, "none", "none")

SpecChain == InitChain /\ [][NextChain]_vars

(* Both chains, over a cache that may reject the SETEX of a result, so     *)
(* that the next call for the symbol is a miss again                       *)
FrameAVOutcomes == {av \in AVOutcomes : av.quote = av.overview /\ av.income = av.balance}

NextFrame ==
  \/ \E c \in {CtxStrong, CtxNoPE} : \E out \in OutcomesFor(llmClients, PlainOutcomes) :
       GenerateAgentPerspective("Fundamental Analyst", c, out)
  \/ Below(MaxChainOps) /\ \E s \in Symbols, av \in FrameAVOutcomes, y \in YahooOutcomes :
       \E failSet \in {"none", "setex"} : GetFundamentals(s, av, y, "none", failSet)

SpecFrame == InitChain /\ [][NextFrame]_vars

----------------------------------------------------------------------------
(* MarketService.getSentiment, and MarketController, the other writer of   *)
(* the keys fundamentals:<symbol> and sentiment:<symbol>                   *)

(* the third argument of cacheService.set is the number 600 *)
OptionsOf600 == [ttl |-> 0, tags |-> <<>>]

getSentiment(w, symbol, yahoo, failGet, failSet) ==
  LET g == get(w, sentimentKey(symbol), failGet) IN
  IF g.ret # "null"
  THEN LET parsed == JSONparseMap(g.ret) IN
       [w |-> g.w, hit |-> TRUE,
        ret |-> IF parsed.ok THEN parsed.value ELSE generateMockSentiment(symbol)]
  ELSE
    LET sentiment == yahooGetSentiment(yahoo)
        s == set(g.w, sentimentKey(symbol), JSONstringifyMap(sentiment), OptionsOf600,
                 failSet)
    IN (* a failure inside the outer try is answered with the mock *)
       [w |-> s.w, hit |-> FALSE,
        ret |-> IF s.raised THEN generateMockSentiment(symbol) ELSE sentiment]

(* the ghost variables after a call that may have written key *)
WriteGhosts(key, w, wrote, healthy, value, seconds) ==
  /\ written' = [written EXCEPT ![key] =
                   IF ~wrote THEN @
                   ELSE IF healthy
                   THEN [v |-> value, ttl |-> seconds, age |-> 0, valid |-> TRUE]
                   ELSE NoWrite]
  /\ setTags' = KeepTags(w.r.kv,
                   [setTags EXCEPT ![key] = IF w.r.kv[key] # kv[key] THEN {} ELSE @])
  /\ onlySets' = FALSE

(* the state once getSentiment has returned c *)
SentimentReturned(c, key, healthy, symbol, yahoo) ==
  /\ Apply(c.w)
  /\ lastOp' = [NoOp EXCEPT !.op = "getSentiment", !.key = key,
                             !.healthy = healthy, !.hit = c.hit]
  /\ WriteGhosts(key, c.w, ~c.hit, healthy, JSONstringifyMap(c.ret), OptionsOf600.ttl)
  /\ lastCall' = [op |-> "getSentiment", symbol |-> symbol, yahoo |-> yahoo,
                  hit |-> c.hit, ret |-> c.ret,
                  cached |-> IF Live(kv[key]) THEN kv[key].s ELSE Nil]

GetSentiment(symbol, yahoo, failGet, failSet) ==
  /\ UNCHANGED <<ticks, pc, local, writeOrder, llmClients, avKey, requestCount, lastRequestTime, now>>
  /\ SentimentReturned(
       getSentiment(World, symbol, yahoo, failGet, failSet),
       sentimentKey(symbol), isConnected /\ failGet = "none" /\ failSet = "none",
       symbol, yahoo)

(* generateKey('fundamentals', symbol) is the key of MarketService *)
ControllerTTL == 900

(* MarketController.getFundamentals for a well-formed symbol: the body     *)
(* sent, as a JavaScript value                                             *)
(* the miss branch: f is what marketService.getFundamentals returned *)
controllerStoreFundamentals(f, symbol) ==
  [w |-> set(f.w, cacheKey(symbol), ObjectValue(f.ret),
             [ttl |-> ControllerTTL, tags |-> <<>>], "none").w,
   hit |-> FALSE, body |-> ObjectValue(f.ret)]

controllerGetFundamentals(w, key, symbol, av, yahoo) ==
  LET g == get(w, cacheKey(symbol), "none") IN
  IF g.ret # "null"
  THEN [w |-> g.w, hit |-> TRUE, body |-> g.ret]
  ELSE controllerStoreFundamentals(
         getFundamentals(g.w, key, symbol, av, yahoo, "none", "none"), symbol)

(* the state once the handler has sent c.body *)
ControllerFundamentalsReturned(c, key, symbol) ==
  /\ Apply(c.w)
  /\ lastOp' = [NoOp EXCEPT !.op = "controller.getFundamentals", !.key = key,
                             !.healthy = isConnected, !.hit = c.hit]
  /\ WriteGhosts(key, c.w, ~c.hit, isConnected, c.body, ControllerTTL)
  /\ lastCall' = [op |-> "controller.getFundamentals", symbol |-> symbol,
                  hit |-> c.hit, body |-> c.body]

ControllerGetFundamentals(symbol, av, yahoo) ==
  /\ UNCHANGED <<ticks, pc, local, writeOrder, llmClients, avKey, requestCount, lastRequestTime, now>>
  /\ ControllerFundamentalsReturned(
       controllerGetFundamentals(World, avKey, symbol, av, yahoo),
       cacheKey(symbol), symbol)

(* the miss branch: f is what marketService.getSentiment returned *)
controllerStoreSentiment(f, symbol) ==
  [w |-> set(f.w, sentimentKey(symbol), ObjectValue(f.ret),
             [ttl |-> 2 * ControllerTTL, tags |-> <<>>], "none").w,
   hit |-> FALSE, body |-> ObjectValue(f.ret)]

controllerGetSentiment(w, symbol, yahoo) ==
  LET g == get(w, sentimentKey(symbol), "none") IN
  IF g.ret # "null"
  THEN [w |-> g.w, hit |-> TRUE, body |-> g.ret]
  ELSE controllerStoreSentiment(
         getSentiment(g.w, symbol, yahoo, "none", "none"), symbol)

(* the state once the handler has sent c.body *)
ControllerSentimentReturned(c, key, symbol) ==
  /\ Apply(c.w)
  /\ lastOp' = [NoOp EXCEPT !.op = "controller.getSentiment", !.key = key,
                             !.healthy = isConnected, !.hit = c.hit]
  /\ WriteGhosts(key, c.w, ~c.hit, isConnected, c.body, 2 * ControllerTTL)
  /\ lastCall' = [op |-> "controller.getSentiment", symbol |-> symbol,
                  hit |-> c.hit, body |-> c.body]

ControllerGetSentiment(symbol, yahoo) ==
  /\ UNCHANGED <<ticks, pc, local, writeOrder, llmClients, avKey, requestCount, lastRequestTime, now>>
  /\ ControllerSentimentReturned(
       controllerGetSentiment(World, symbol, yahoo), sentimentKey(symbol), symbol)

(* the market data of one symbol, served by the service and the controller *)
MaxMarketOps == 5      \* counted cache operations of the market runs

(* Alpha Vantage answers every request, or none, or all but the overview   *)
MarketAV == {o \in AVOutcomes : o.income = o.balance /\ o.quote = o.income
                                  /\ (o.overview => o.quote)}

MarketInit == llmClients = {} /\ avKey \in BOOLEAN /\ lastCall = NoCall

InitMarket == CacheInit /\ IdleLimiter /\ IdleProcs /\ MarketInit

(* at most one command of a call is rejected *)
MarketFails == {<<"none", "none">>, <<"get", "none">>, <<"none", "setex">>}
MarketYahoo == {"throw", "ok"}

NextMarket ==
  \/ Below(MaxMarketOps) /\ \E s \in Symbols, av \in MarketAV, y \in MarketYahoo,
                              f \in MarketFails :
       GetFundamentals(s, av, y, f[1], f[2])
  \/ Below(MaxMarketOps) /\ \E s \in Symbols, y \in MarketYahoo, f \in MarketFails :
       GetSentiment(s, y, f[1], f[2])
  \/ Below(MaxMarketOps) /\ \E s \in Symbols, av \in MarketAV, y \in MarketYahoo :
       ControllerGetFundamentals(s, av, y)
  \/ Below(MaxMarketOps) /\ \E s \in Symbols, y \in MarketYahoo :
       ControllerGetSentiment(s, y)
  \/ Ready
  \/ Close

SpecMarket == InitMarket /\ [][NextMarket]_vars

(* CacheController.clearSymbol.  The names it hands to delete, one for     *)
(* each kind of entry                                                      *)
patterns(symbol) ==
  <<"mf:template:" \o symbol \o "*", "mf:fundamentals:" \o symbol \o "*",
    "mf:sentiment:" \o symbol \o "*", "mf:agents:" \o symbol \o "*",
    "mf:analysis:" \o symbol \o "*">>

(* typeof deleted === 'number' *)
IsNumber(v) == v \notin BOOLEAN

(* for (const pattern of patterns): delete, then deletedCount += deleted   *)
(* when deleted is a number                                                *)
RECURSIVE clearPatterns(_, _, _, _, _)
clearPatterns(w, names, i, deletedCount, fail) ==
  IF i > Len(names) THEN [w |-> w, deletedCount |-> deletedCount]
  ELSE LET d == delete(w, names[i], fail)
       IN clearPatterns(d.w, names, i + 1,
                        IF IsNumber(d.ret) THEN deletedCount + d.ret ELSE deletedCount,
                        fail)

clearSymbol(w, symbol, fail) ==
  LET c == clearPatterns(w, patterns(symbol), 1, 0, fail)
  IN [w |-> c.w, status |-> 200, entriesDeleted |-> c.deletedCount]

(* the entries of a symbol *)
SymbolKeys(symbol) == {cacheKey(symbol), sentimentKey(symbol)}

ClearReturned(c, symbol, fail) ==
  /\ Apply(c.w)
  /\ lastOp' = [NoOp EXCEPT !.op = "clearSymbol", !.fail = fail,
                             !.connected = isConnected,
                             !.healthy = isConnected /\ fail = "none",
                             !.removed = Cardinality({k \in SymbolKeys(symbol) :
                                            Live(kv[k]) /\ ~Live(c.w.r.kv[k])})]
  /\ lastCall' = [op |-> "clearSymbol", symbol |-> symbol, status |-> c.status,
                  entriesDeleted |-> c.entriesDeleted,
                  cached |-> {k \in SymbolKeys(symbol) : Live(kv[k])}]
  /\ setTags' = KeepTags(c.w.r.kv, setTags)
  /\ written' = [k \in Keys |-> IF Live(c.w.r.kv[k]) THEN written[k] ELSE NoWrite]
  /\ onlySets' = FALSE

ClearSymbol(symbol, fail) ==
  /\ UNCHANGED <<ticks, pc, local, writeOrder, llmClients, avKey, requestCount, lastRequestTime, now>>
  /\ ClearReturned(clearSymbol(World, symbol, fail), symbol, fail)

NextClear ==
  \/ Below(MaxChainOps) /\ \E s \in Symbols, av \in FrameAVOutcomes, y \in YahooOutcomes :
       GetFundamentals(s, av, y, "none", "none")
  \/ Below(MaxChainOps) /\ \E s \in Symbols, y \in YahooOutcomes :
       GetSentiment(s, y, "none", "none")
  \/ Below(MaxChainOps) /\ \E s \in Symbols, fail \in {"none", "del"} : ClearSymbol(s, fail)
  \/ Ready
  \/ Close

SpecClear == InitMarket /\ [][NextClear]_vars

(* The market service over a healthy cache while time passes.  The numbers *)
(* the service hands to cacheService.set as third argument:                *)
FundamentalsSeconds == 300
SentimentSeconds == 600

ExpirySteps == {FundamentalsSeconds, SentimentSeconds}

NextExpiry ==
  \/ Below(MaxChainOps) /\ \E s \in Symbols, av \in FrameAVOutcomes, y \in YahooOutcomes :
       GetFundamentals(s, av, y, "none", "none")
  \/ Below(MaxChainOps) /\ \E s \in Symbols, y \in YahooOutcomes :
       GetSentiment(s, y, "none", "none")
  \/ \E d \in ExpirySteps : Tick(d)

SpecExpiry == InitMarket /\ [][NextExpiry]_vars

----------------------------------------------------------------------------
(* generateIntelligentMock in full: the key points, the target price and   *)
(* the confidence.  A draw of Math.random() is counted in hundredths       *)
(* (0..99); the multiplier and the confidence are counted in               *)
(* ten-thousandths.                                                        *)

Draws == {0, 50, 99}

Band(score) == IF score >= 7 THEN "Buy" ELSE IF score >= 4 THEN "Hold" ELSE "Sell"

(* 1.15 + r * 0.15, 0.95 + r * 0.15, 0.70 + r * 0.20 *)
targetMultiplier(score, r) ==
  CASE Band(score) = "Buy"  -> 11500 + r * 15
    [] Band(score) = "Hold" -> 9500 + r * 15
    [] OTHER                -> 7000 + r * 20

(* the key points the metrics give rise to, in the order of the code; a    *)
(* point names its metric and its verdict                                  *)
MetricPoints(ctx) ==
  (IF Gt(ctx.peRatio, 0) /\ Lt(ctx.peRatio, 20) THEN <<"pe:attractive">>
   ELSE IF Gt(ctx.peRatio, 30) THEN <<"pe:high">> ELSE <<>>)
  \o (IF Gt(ctx.revenueGrowth, 10) THEN <<"growth:strong">>
      ELSE IF Lt(ctx.revenueGrowth, 0) THEN <<"growth:declining">> ELSE <<>>)
  \o (IF Gt(ctx.profitMargin, 15) THEN <<"margin:healthy">> ELSE <<>>)
  \o (IF Lt(ctx.debtToEquity, 50) THEN <<"debt:conservative">>
      ELSE IF Gt(ctx.debtToEquity, 150) THEN <<"debt:elevated">> ELSE <<>>)
  \o (IF Gt(ctx.roe, 15) THEN <<"roe:strong">> ELSE <<>>)

(* a key point calls toFixed on its metric; the one metric that passes its *)
(* test without being a number is a null debtToEquity (null < 0.5)         *)
MetricPointsThrow(ctx) == ctx.debtToEquity.null

(* the lists are chosen at other scores than the recommendation *)
getGenericPoint_bands(score, r) ==
  LET index == (r * 5) \div 100
      list  == IF score >= 6 THEN "bullish" ELSE IF score <= 2 THEN "bearish"
               ELSE "neutral"
  IN list \o ":" \o ToString(index)

(* getGenericPoint: entry Math.floor(r * 5) of the list of the band *)
getGenericPoint(score, r) ==
  LET index == (r * 5) \div 100
      list  == IF score >= 7 THEN "bullish" ELSE IF score <= 3 THEN "bearish"
               ELSE "neutral"
  IN list \o ":" \o ToString(index)

(* while (keyPoints.length < 5) keyPoints.push(this.getGenericPoint(...)); *)
(* draws[i] is the i-th draw of the loop                                   *)
RECURSIVE FillPoints(_, _, _, _)
FillPoints(points, score, draws, i) ==
  IF Len(points) >= 5 THEN points
  ELSE FillPoints(Append(points, getGenericPoint(score, draws[i])), score, draws, i + 1)

NotANumber == [kind |-> "NaN", n |-> 0]

(* context.currentPrice * targetMultiplier: NaN when the price is          *)
(* undefined, 0 when it is null                                            *)
Times(m, k) ==
  IF m.defined THEN [kind |-> "number", n |-> m.n * k]
  ELSE IF m.null THEN [kind |-> "number", n |-> 0]
  ELSE NotANumber

NoMock == [raised |-> TRUE, score |-> 0, recommendation |-> Absent, bias |-> Absent,
           keyPoints |-> <<>>, targetPrice |-> NotANumber, confidence |-> 0]

(* the recommendation follows the draw for the multiplier *)
intelligentMock_drawn(agentType, ctx, rand) ==
  [raised |-> FALSE, score |-> Score(agentType, ctx),
   recommendation |-> IF rand.mult >= 50 THEN "Buy" ELSE "Sell",
   bias |-> IF rand.mult >= 50 THEN "Bullish" ELSE "Bearish",
   keyPoints |-> <<>>, targetPrice |-> NotANumber, confidence |-> 6500]

(* rand = [mult, conf, fill]: the draws for the multiplier, for the        *)
(* confidence and for the filler points                                    *)
intelligentMock(agentType, ctx, rand) ==
  LET score == Score(agentType, ctx)
      base  == generateIntelligentMock(agentType, ctx)
  IN IF MetricPointsThrow(ctx) THEN NoMock
     ELSE [raised |-> FALSE, score |-> score,
           recommendation |-> base.recommendation, bias |-> base.bias,
           keyPoints |-> SubSeq(FillPoints(MetricPoints(ctx), score, rand.fill, 1), 1, 5),
           targetPrice |-> Times(ctx.currentPrice, targetMultiplier(score, rand.mult)),
           confidence |-> 6500 + rand.conf * 25]

MockOnly == UNCHANGED <<isConnected, stats, kv, tagsets, ticks, lastOp, written,
                        setTags, onlySets, pc, local, writeOrder, llmClients, avKey,
      requestCount, lastRequestTime, now>>

(* the call of the generator on the arguments that were drawn *)
GenerateIntelligentMock ==
  /\ MockOnly
  /\ lastCall.op = "arguments"
  /\ lastCall' = [op |-> "generateIntelligentMock", agentType |-> lastCall.agentType,
                  context |-> lastCall.context, rand |-> lastCall.rand,
                  result |-> intelligentMock(lastCall.agentType, lastCall.context,
                                             lastCall.rand)]

(* the contexts the generator is run on: every metric it reads is low,     *)
(* middling, high, undefined or null                                       *)
MockContexts ==
  [currentPrice : {Num(100), Missing}, marketCap : {Num(50)},
   peRatio : {Num(15), Num(25), Num(40), Missing},
   revenueGrowth : {Num(-5), Num(8), Num(20), Missing},
   profitMargin : {Num(5), Num(12), Num(25)},
   debtToEquity : {Num(30), Num(80), Num(200), Missing, NullMetric},
   roe : {Num(5), Num(12), Num(25)},
   beta : {Num(1)}, fundamentals : {TRUE}]

Fills == {<<0, 0, 0, 0, 0>>, <<99, 50, 0, 99, 50>>}
Rands == [mult : Draws, conf : {0, 99}, fill : Fills]

MockInit ==
  /\ llmClients = {}
  /\ avKey = FALSE
  /\ \E a \in AgentTypes, c \in MockContexts, r \in Rands :
       lastCall = [op |-> "arguments", agentType |-> a, context |-> c, rand |-> r]

InitMock == CacheInit /\ IdleLimiter /\ IdleProcs /\ MockInit

NextMock == GenerateIntelligentMock

SpecMock == InitMock /\ [][NextMock]_vars

(* The generator is called a second time on the arguments of the first     *)
(* call; Math.random() draws anew                                          *)
GenerateAgain(rand) ==
  /\ MockOnly
  /\ lastCall.op = "generateIntelligentMock"
  /\ lastCall' = [op |-> "again", agentType |-> lastCall.agentType,
                  context |-> lastCall.context, rand |-> rand,
                  result |-> intelligentMock(lastCall.agentType, lastCall.context, rand),
                  firstRand |-> lastCall.rand, first |-> lastCall.result]

InitAgain ==
  /\ InitMock
  /\ lastCall.context.currentPrice = Num(100)
  /\ lastCall.rand.conf = 0

NextAgain ==
  \/ GenerateIntelligentMock
  \/ \E r \in Rands : GenerateAgain(r)

SpecAgain == InitAgain /\ [][NextAgain]_vars

----------------------------------------------------------------------------
(* Claims about the tag index (SpecTag) *)

TagSet(tl) == SeqRange(tl)

(* C1: on a healthy backend, after any sequence of set calls,              *)
(* invalidateByTags(tags) leaves no key readable that was set with one of  *)
(* the tags and has not expired by itself.                                 *)
C1_InvalidateRemovesTagged ==
  (lastOp.op = "invalidateByTags" /\ lastOp.healthy /\ lastOp.pre)
    => \A k \in Keys : (setTags[k] \cap TagSet(lastOp.tags) # {}) => ~Live(kv[k])

TTLAtLeast(a, b) == a = NoExpiry \/ a >= b

(* C2: after any sequence of set calls, the TagSet of a tag lives at least *)
(* as long as every unexpired key that was set under the tag.              *)
C2_TagSetOutlivesKeys ==
  onlySets
    => \A t \in Tags, k \in Keys :
         (Live(kv[k]) /\ t \in setTags[k]) => TTLAtLeast(tagsets[t].ttl, kv[k].ttl)

----------------------------------------------------------------------------
(* Claims about reading and writing (Spec) *)

(* the get that returned last read a key whose latest write was a set on a *)
(* healthy backend, with no delete or invalidation of the key since        *)
ReadAfterWrite ==
  lastOp.op = "get" /\ lastOp.healthy /\ written[lastOp.key].valid

(* C3 as stated: set(k, v, ttl) then get(k) returns v before ttl seconds   *)
(* have elapsed and null afterwards, for every value v and every ttl.      *)
C3_ReadYourWrite_AnyValue ==
  ReadAfterWrite
    => LET w == written[lastOp.key] IN
       /\ w.age < w.ttl  => lastOp.ret = w.v
       /\ w.age >= w.ttl => lastOp.ret = "null"

RoundTrips(v) == JSONstringify(v) # Throws /\ JSONparse(JSONstringify(v)) = v

(* C3 amended: for every value v that survives a JSON round trip, with     *)
(* T = ttl when ttl >= 1 and T = cacheTTL.default when ttl is 0 or         *)
(* omitted: get(k) returns v before T seconds have elapsed since the set   *)
(* and null afterwards.                                                    *)
C3_ReadYourWrite ==
  (ReadAfterWrite /\ RoundTrips(written[lastOp.key].v))
    => LET w == written[lastOp.key]
           T == IF w.ttl >= 1 THEN w.ttl ELSE cacheTTL_default
       IN
       /\ w.age < T  => lastOp.ret = w.v
       /\ w.age >= T => lastOp.ret = "null"

(* a value written with ttl 2 is read back one second later *)
C3_Witness ==
  /\ ReadAfterWrite
  /\ written[lastOp.key] = [v |-> "a", ttl |-> 2, age |-> 1, valid |-> TRUE]
  /\ lastOp.ret = "a"

----------------------------------------------------------------------------
(* Claims about getOrSet (SpecFill) *)

Filled == lastOp.op = "getOrSet"

(* C4: getOrSet invokes compute 0 times when the key is a cache hit and    *)
(* returns the stored value; on a miss it invokes compute exactly once and *)
(* returns compute's result.                                               *)
C4_ComputeOnlyOnMiss ==
  Filled
    => /\ lastOp.hit  => (lastOp.calls = 0 /\ lastOp.ret = lastOp.value)
       /\ ~lastOp.hit => (lastOp.calls = 1
                            /\ (lastOp.made # Throws => lastOp.ret = lastOp.made))

(* C5: when compute has produced a value, getOrSet returns that value and  *)
(* does not raise, whether or not the value could be stored.               *)
C5_StoreFailureNotFatal ==
  (Filled /\ lastOp.calls = 1 /\ lastOp.made # Throws)
    => (~lastOp.raised /\ lastOp.ret = lastOp.made)

(* compute returned a value JSON cannot encode: nothing was stored, the    *)
(* value was returned                                                      *)
C5_Witness ==
  /\ Filled /\ lastOp.calls = 1 /\ lastOp.made = "cyclic"
  /\ ~lastOp.stored /\ ~lastOp.raised /\ lastOp.ret = "cyclic"

----------------------------------------------------------------------------
(* Claims about concurrent getOrSet calls (SpecConc) *)

BothDone == \A p \in Procs : pc[p] = "done"

(* two calls on the same key whose GET replies both came before any write *)
ConcurrentMisses ==
  /\ BothDone
  /\ local["p1"].key = local["p2"].key
  /\ \A p \in Procs : local[p].early

LastWriter == writeOrder[Len(writeOrder)]

(* C6: two concurrent getOrSet calls on the same absent key both observe a *)
(* miss, each invokes its compute exactly once and returns its own value,  *)
(* both write, and the cached value is that of the write applied last; a   *)
(* call that has not returned can always take its next step.               *)
C6_LastWriteWins ==
  /\ ConcurrentMisses
       => /\ \A p \in Procs : /\ local[p].cached = "null"
                               /\ local[p].calls = 1
                               /\ local[p].ret = local[p].made
          /\ \A p \in Procs : \E i \in 1..Len(writeOrder) : writeOrder[i] = p
          /\ Len(writeOrder) = 2
          /\ kv[local["p1"].key].s = JSONstringify(local[LastWriter].made)
  /\ \A p \in Procs : pc[p] \notin {"idle", "done"} => ENABLED ProcStep(p)

(* p1 wrote "a" first, p2 wrote "b" last: "b" is cached, p1 returned "a" *)
C6_Witness ==
  /\ ConcurrentMisses
  /\ writeOrder = <<"p1", "p2">>
  /\ local["p1"].made = "a" /\ local["p2"].made = "b"
  /\ local["p1"].ret = "a" /\ local["p2"].ret = "b"
  /\ kv[local["p1"].key].s = "json:b"

----------------------------------------------------------------------------
(* Claims about the fallback chains (SpecChain, SpecLLM) *)

(* a provider call fails when it throws or returns nothing *)
Failed(o) == o.kind # "object"

Earlier(q, p) == Position(q) < Position(p)

(* the perspective built from a provider's payload *)
PerspectiveOf(agentType, o, p) ==
  [agentType |-> agentType, recommendation |-> o.recommendation, reasoning |-> p,
   keyPoints |-> o.keyPoints, bias |-> mapBias(o.bias)]

LLMChainOrder ==
  lastCall.op = "generateAgentPerspective" =>
    LET inv     == lastCall.invoked
        Invoked == SeqRange(inv)
    IN /\ \A i, j \in 1..Len(inv) : i < j => Earlier(inv[i], inv[j])
       /\ \A p \in Invoked :
            /\ p \in llmClients
            /\ \A q \in llmClients :
                 Earlier(q, p) => q \in Invoked /\ Failed(lastCall.out[q])
       /\ ~lastCall.raised =>
            \A p \in llmClients :
              (/\ ~Failed(lastCall.out[p])
               /\ \A q \in llmClients : Earlier(q, p) => Failed(lastCall.out[q]))
              => /\ p \in Invoked
                 /\ lastCall.result = PerspectiveOf(lastCall.agentType, lastCall.out[p], p)

FundChainOrder ==
  (lastCall.op = "getFundamentals" /\ ~lastCall.hit) =>
    LET Invoked  == SeqRange(lastCall.invoked)
        avMap    == getComprehensiveFundamentals(lastCall.av)
        avFailed == ~lastCall.key \/ NoData(avMap)
    IN /\ lastCall.invoked \in {<<>>, <<"alphaVantage">>, <<"yahoo">>,
                                <<"alphaVantage", "yahoo">>}
       /\ "alphaVantage" \in Invoked <=> lastCall.key
       /\ "yahoo" \in Invoked <=> avFailed
       /\ ~avFailed => lastCall.ret = avMap
       /\ (avFailed /\ lastCall.yahoo # "throw")
            => lastCall.ret = yahooGetFundamentals(lastCall.yahoo)

(* C7: in both chains the providers are invoked in the fixed order, a      *)
(* provider is invoked only if every earlier configured provider was       *)
(* invoked and failed, and a call that returns hands back the payload of   *)
(* the first provider that succeeds; no provider after it is invoked.      *)
C7_FirstSuccessWins == LLMChainOrder /\ FundChainOrder

(* OpenAI fails, Anthropic succeeds, Google has a client and is not asked *)
C7_Witness ==
  /\ lastCall.op = "generateAgentPerspective"
  /\ llmClients = ProviderSet
  /\ Failed(lastCall.out["openai"])
  /\ ~Failed(lastCall.out["anthropic"])
  /\ ~Failed(lastCall.out["google"])
  /\ lastCall.invoked = <<"openai", "anthropic">>
  /\ ~lastCall.raised
  /\ lastCall.result.reasoning = "anthropic"

(* C8: generateAgentPerspective never raises; when every configured        *)
(* provider fails, or none is configured, it returns the perspective built *)
(* from generateIntelligentMock, whatever the agent type and the context.  *)
C8_NeverRaises ==
  lastCall.op = "generateAgentPerspective" =>
    /\ ~lastCall.raised
    /\ (\A p \in llmClients : Failed(lastCall.out[p]))
         => lastCall.result =
              PerspectiveOf(lastCall.agentType,
                            generateIntelligentMock(lastCall.agentType, lastCall.context),
                            "mock")

IsMalformed(o) ==
  o.kind = "object" /\ Absent \in {o.recommendation, o.bias, o.keyPoints}

(* C9: a provider whose reply parses to an object without recommendation,  *)
(* keyPoints or bias has failed: the call does not raise, the result is    *)
(* not built from that reply, and a later configured provider is asked.    *)
C9_MalformedIsFailure ==
  lastCall.op = "generateAgentPerspective" =>
    \A p \in SeqRange(lastCall.invoked) :
      IsMalformed(lastCall.out[p]) =>
        /\ ~lastCall.raised
        /\ lastCall.result.reasoning # p
        /\ (\E q \in llmClients : Earlier(p, q))
             => \E q \in SeqRange(lastCall.invoked) : Earlier(p, q)

Complete(av) == av.quote /\ av.overview /\ av.income /\ av.balance

(* C10: a map that getFundamentals accepts from a provider is complete:    *)
(* when one of Alpha Vantage's requests brought nothing, or Yahoo answered *)
(* without a module, that provider has failed and the next one is asked.   *)
C10_AcceptedIsComplete ==
  (lastCall.op = "getFundamentals" /\ ~lastCall.hit) =>
    /\ lastCall.source = "alphaVantage" => Complete(lastCall.av)
    /\ lastCall.source = "yahoo" => lastCall.yahoo = "ok"
    /\ ("alphaVantage" \in SeqRange(lastCall.invoked) /\ ~Complete(lastCall.av))
         => "yahoo" \in SeqRange(lastCall.invoked)

----------------------------------------------------------------------------
(* Claims about the synthetic generator (SpecMock) *)

(* C11: generateIntelligentMock does not raise, whatever the agent type    *)
(* and the metrics (undefined and null ones included), and returns a       *)
(* recommendation among Buy, Hold, Sell, a bias among Bullish, Neutral,    *)
(* Bearish, a confidence within [0,1], a target price that is a number,    *)
(* and exactly 5 key points.                                               *)
C11_MockIsTotal ==
  lastCall.op = "generateIntelligentMock" =>
    LET r == lastCall.result IN
      /\ ~r.raised
      /\ r.recommendation \in {"Buy", "Hold", "Sell"}
      /\ r.bias \in {"Bullish", "Neutral", "Bearish"}
      /\ r.confidence >= 0 /\ r.confidence <= 10000
      /\ r.targetPrice.kind = "number"
      /\ Len(r.keyPoints) = 5

----------------------------------------------------------------------------
(* Claims about the market data (SpecMarket) *)

(* C12: getFundamentals and getSentiment return in every branch, and what  *)
(* they return is a map with at least one field, whether the cache hits,   *)
(* misses, is disconnected, rejects a command or holds an entry written by *)
(* MarketController, and whichever providers fail.                         *)
C12_MarketNeverFails ==
  /\ lastCall.op = "getFundamentals" => lastCall.ret \in FundMaps \ {EmptyMap}
  /\ lastCall.op = "getSentiment" => lastCall.ret \in SentimentMaps

(* a call that found the object the controller had stored *)
C12_Witness ==
  /\ lastCall.op = "getFundamentals"
  /\ lastCall.hit
  /\ lastCall.cached \in MapTexts
  /\ lastCall.ret = generateMockFundamentals(lastCall.symbol)

----------------------------------------------------------------------------
(* Claims about a backend that is away or rejects commands (SpecOutage) *)

SafeDefault(op) ==
  CASE op = "get" -> lastOp.ret = "null"
    [] op \in {"set", "delete", "exists"} -> lastOp.ret = FALSE
    [] op = "ttl" -> lastOp.ret = -1
    [] op \in {"deleteMany", "invalidateByTags"} -> lastOp.ret = 0

CacheOps == {"get", "set", "delete", "exists", "ttl", "deleteMany", "invalidateByTags"}

(* C13: a cache operation that begins while isConnected is false returns   *)
(* its safe default (get null, set/delete/exists false, ttl -1,            *)
(* deleteMany/invalidateByTags 0), does not raise and issues no command:   *)
(* the counters and the Redis server are as before, whatever the backend   *)
(* would have answered.                                                    *)
C13_SafeWhenDisconnected ==
  (lastOp.op \in CacheOps /\ ~lastOp.connected) =>
    /\ SafeDefault(lastOp.op)
    /\ lastOp.quiet
    /\ ~lastOp.raised

(* exists on a key that is in the store, called during an outage *)
C13_Witness ==
  /\ lastOp.op = "exists"
  /\ ~lastOp.connected
  /\ Live(kv[lastOp.key])
  /\ lastOp.ret = FALSE

(* C14: set never raises; with the backend connected it returns false     *)
(* when the value cannot be serialized and when any of its backend         *)
(* commands fails (SETEX, or a command of the tag pipeline); when it       *)
(* returns true the key holds the serialized value.                        *)
C14_SetFalseOnError ==
  lastOp.op = "set" =>
    /\ ~lastOp.raised
    /\ (lastOp.connected /\ (lastOp.fail # "none" \/ JSONstringify(lastOp.value) = Throws))
         => lastOp.ret = FALSE
    /\ lastOp.ret = TRUE
         => (Live(kv[lastOp.key]) /\ kv[lastOp.key].s = JSONstringify(lastOp.value))

----------------------------------------------------------------------------
(* Cache keys: CacheService.generateKey                                    *)
(*                                                                         *)
(* A component is a string, a number or an object.  An object is the       *)
(* sequence of its own properties in insertion order; a property value is  *)
(* a number or a nested object.                                            *)

MaxParts == 3

Str(s) == [t |-> "str", s |-> s]
NumberValue(n) == [t |-> "num", n |-> n]
Obj(o) == [t |-> "obj", o |-> o]
Prop(k, v) == [k |-> k, v |-> v]

(* the nested objects a property can hold *)
Nested ==
  { <<Prop("x", NumberValue(1)), Prop("y", NumberValue(2))>>,
    <<Prop("y", NumberValue(2)), Prop("x", NumberValue(1))>>,
    <<Prop("x", NumberValue(1))>> }

PropValues == {NumberValue(1)} \cup {Obj(n) : n \in Nested}

Objects ==
  {<<>>}
  \cup {<<Prop(k, v)>> : k \in {"a", "b"}, v \in PropValues}
  \cup {<<Prop("a", v), Prop("b", u)>> : v \in PropValues, u \in PropValues}
  \cup {<<Prop("b", u), Prop("a", v)>> : v \in PropValues, u \in PropValues}

ScalarParts == {"a", "a:b", "b:c", "c"}

ComponentLists ==
  UNION {[1..n -> {Str(x) : x \in ScalarParts}] : n \in 1..MaxParts}
  \cup {<<Str("user"), Str("123"), Str("profile")>>,
        <<Str("user"), NumberValue(123), Str("profile")>>}
  \cup {<<Str("cache"), Obj(o)>> : o \in Objects}

(* String(component) *)
String(c) == IF c.t = "num" THEN ToString(c.n) ELSE c.s

(* the order Array.prototype.sort gives the property names in use *)
CodeUnitOrder == <<"a", "b", "x", "y">>

ObjectKeys(o) == {o[i].k : i \in DOMAIN o}

ValueAt(o, k) == o[CHOOSE i \in DOMAIN o : o[i].k = k].v

(* Object.keys(component).sort() *)
sortedKeys(o) == SelectSeq(CodeUnitOrder, LAMBDA k : k \in ObjectKeys(o))

(* the reduce: a new object with the top-level properties in sorted order; *)
(* the property values are copied as they are                              *)
sorted(o) == [i \in 1..Len(sortedKeys(o)) |-> Prop(sortedKeys(o)[i], ValueAt(o, sortedKeys(o)[i]))]

(* JSON.stringify of an object: members in property order, no white space *)
RECURSIVE JSONmembers(_)
JSONmembers(o) ==
  IF Len(o) = 0 THEN ""
  ELSE LET v == Head(o).v IN
       "\"" \o Head(o).k \o "\":"
       \o (IF v.t = "num" THEN ToString(v.n) ELSE "{" \o JSONmembers(v.o) \o "}")
       \o (IF Len(o) = 1 THEN "" ELSE "," \o JSONmembers(Tail(o)))

JSONstringifyObject(o) == "{" \o JSONmembers(o) \o "}"

HexDigits == {"0", "1", "2", "3", "4", "5", "6", "7", "8", "9", "a", "b", "c", "d", "e", "f"}

(* crypto.createHash('md5').update(text): the digest of every text the     *)
(* objects above serialize to, as its sequence of hexadecimal digits       *)
md5 ==
  "{\"a\":1,\"b\":1}" :>
    <<"0","2","2","7","d","c","d","a","c","6","f","4","b","f","1","b","c","4","3","a","7","c","8","5","9","4","7","e","4","7","4","4">> @@
  "{\"a\":1,\"b\":{\"x\":1,\"y\":2}}" :>
    <<"8","9","c","b","c","a","0","8","5","4","f","e","d","0","e","2","c","f","d","3","b","2","f","7","0","3","6","a","e","9","1","0">> @@
  "{\"a\":1,\"b\":{\"x\":1}}" :>
    <<"4","e","a","5","6","a","2","6","3","7","5","8","9","0","4","d","4","0","a","8","a","9","5","4","5","2","5","c","c","5","8","4">> @@
  "{\"a\":1,\"b\":{\"y\":2,\"x\":1}}" :>
    <<"b","8","7","b","e","f","9","6","0","b","9","e","4","5","3","c","d","6","0","2","8","9","d","8","3","b","8","4","0","c","1","c">> @@
  "{\"a\":1}" :>
    <<"b","b","6","c","b","5","c","6","8","d","f","4","6","5","2","9","4","1","c","a","f","6","5","2","a","3","6","6","f","2","d","8">> @@
  "{\"a\":{\"x\":1,\"y\":2},\"b\":1}" :>
    <<"4","9","a","0","e","6","2","7","d","5","2","4","4","6","2","f","8","b","3","f","e","2","d","0","8","6","a","9","c","b","6","d">> @@
  "{\"a\":{\"x\":1,\"y\":2},\"b\":{\"x\":1,\"y\":2}}" :>
    <<"7","8","b","6","1","e","4","0","5","c","1","0","d","1","9","c","1","4","1","b","a","1","7","7","d","b","e","3","c","c","2","e">> @@
  "{\"a\":{\"x\":1,\"y\":2},\"b\":{\"x\":1}}" :>
    <<"c","b","f","f","6","3","c","1","3","8","e","8","a","3","9","b","b","a","1","f","6","e","3","1","f","f","1","e","3","a","0","3">> @@
  "{\"a\":{\"x\":1,\"y\":2},\"b\":{\"y\":2,\"x\":1}}" :>
    <<"7","4","7","2","6","f","0","3","b","0","1","e","a","9","b","a","5","d","1","3","a","f","6","f","3","1","0","e","e","f","a","b">> @@
  "{\"a\":{\"x\":1,\"y\":2}}" :>
    <<"5","4","8","4","5","6","e","f","f","b","0","c","3","7","7","2","0","7","3","c","9","f","4","0","2","0","f","0","1","0","3","7">> @@
  "{\"a\":{\"x\":1},\"b\":1}" :>
    <<"c","c","5","4","b","1","5","4","a","7","c","4","7","7","6","1","d","7","2","0","b","e","0","7","9","1","a","3","e","8","f","7">> @@
  "{\"a\":{\"x\":1},\"b\":{\"x\":1,\"y\":2}}" :>
    <<"7","e","a","0","c","d","b","0","f","5","2","2","a","4","7","e","3","6","5","6","e","0","0","2","b","4","4","b","2","7","a","d">> @@
  "{\"a\":{\"x\":1},\"b\":{\"x\":1}}" :>
    <<"c","9","a","8","3","7","f","c","0","6","2","9","9","8","f","7","b","8","4","8","3","2","d","3","4","2","4","d","8","1","f","0">> @@
  "{\"a\":{\"x\":1},\"b\":{\"y\":2,\"x\":1}}" :>
    <<"e","9","e","0","f","4","a","8","c","1","8","c","6","f","6","a","f","6","7","a","a","9","0","e","b","c","d","8","2","9","8","4">> @@
  "{\"a\":{\"x\":1}}" :>
    <<"0","b","6","7","7","a","e","f","5","e","7","9","c","e","3","5","a","e","7","d","6","1","8","2","a","6","8","a","d","e","e","b">> @@
  "{\"a\":{\"y\":2,\"x\":1},\"b\":1}" :>
    <<"d","6","1","8","5","2","9","2","3","f","e","0","e","9","a","5","b","e","a","d","3","d","8","6","2","5","7","9","2","a","b","2">> @@
  "{\"a\":{\"y\":2,\"x\":1},\"b\":{\"x\":1,\"y\":2}}" :>
    <<"b","2","e","e","3","e","2","6","9","d","a","2","1","d","5","0","c","d","e","3","6","5","e","3","d","f","e","3","0","b","2","2">> @@
  "{\"a\":{\"y\":2,\"x\":1},\"b\":{\"x\":1}}" :>
    <<"5","e","e","d","5","0","1","3","9","5","b","3","5","6","2","b","9","9","3","7","6","1","2","6","9","0","2","f","d","d","0","a">> @@
  "{\"a\":{\"y\":2,\"x\":1},\"b\":{\"y\":2,\"x\":1}}" :>
    <<"d","6","7","6","d","9","b","2","3","f","4","9","5","d","9","0","7","b","f","2","5","8","c","5","3","2","a","2","6","7","2","3">> @@
  "{\"a\":{\"y\":2,\"x\":1}}" :>
    <<"6","a","9","a","8","d","1","e","4","8","1","1","7","8","c","2","0","5","b","c","d","8","a","3","3","a","6","9","e","b","c","d">> @@
  "{\"b\":1}" :>
    <<"e","1","7","d","0","e","e","9","9","0","1","3","e","5","e","e","0","1","d","0","b","0","7","3","e","d","2","b","a","b","2","c">> @@
  "{\"b\":{\"x\":1,\"y\":2}}" :>
    <<"6","4","f","7","0","2","6","6","9","a","4","4","6","a","e","8","e","e","a","f","c","b","2","8","3","e","9","e","e","9","c","6">> @@
  "{\"b\":{\"x\":1}}" :>
    <<"5","d","8","e","7","a","c","9","6","5","d","d","c","d","b","2","2","2","c","8","0","b","d","4","d","7","b","d","7","3","b","1">> @@
  "{\"b\":{\"y\":2,\"x\":1}}" :>
    <<"b","c","4","4","e","c","4","d","1","a","c","0","8","8","a","2","4","3","a","1","e","1","1","f","9","1","8","e","3","3","7","b">> @@
  "{}" :>
    <<"9","9","9","1","4","b","9","3","2","b","d","3","7","a","5","0","b","9","8","3","c","5","e","7","c","9","0","a","e","9","3","b">>

(* digest('hex') *)
RECURSIVE digestHex(_)
digestHex(d) == IF Len(d) = 0 THEN "" ELSE Head(d) \o digestHex(Tail(d))

keyPart(component) ==
  IF component.t = "obj"
  THEN digestHex(md5[JSONstringifyObject(sorted(component.o))])
  ELSE String(component)

(* a join that puts '-' between the parts *)
RECURSIVE join_dash(_)
join_dash(parts) ==
  IF Len(parts) = 0 THEN ""
  ELSE IF Len(parts) = 1 THEN parts[1]
  ELSE parts[1] \o "-" \o join_dash(Tail(parts))

(* keyParts.join(':') *)
RECURSIVE join(_)
join(parts) ==
  IF Len(parts) = 0 THEN ""
  ELSE IF Len(parts) = 1 THEN parts[1]
  ELSE parts[1] \o ":" \o join(Tail(parts))

generateKey(components) ==
  join([i \in 1..Len(components) |-> keyPart(components[i])])

(* two calls of generateKey, one after the other, on the two component     *)
(* lists that were drawn                                                   *)
GenerateKey ==
  /\ MockOnly
  /\ lastCall.op \in {"components", "generateKey"}
  /\ Len(lastCall.keys) < 2
  /\ lastCall' = [lastCall EXCEPT
                    !.op = "generateKey",
                    !.keys = Append(@, generateKey(lastCall.components[Len(@) + 1]))]

KeyInit ==
  /\ llmClients = {}
  /\ avKey = FALSE
  /\ \E a \in ComponentLists, b \in ComponentLists :
       lastCall = [op |-> "components", components |-> <<a, b>>, keys |-> <<>>]

InitKey == CacheInit /\ IdleLimiter /\ IdleProcs /\ KeyInit

NextKey == GenerateKey

SpecKey == InitKey /\ [][NextKey]_vars

----------------------------------------------------------------------------
(* Claims about generateKey (SpecKey) *)

BothKeys == lastCall.op = "generateKey" /\ Len(lastCall.keys) = 2

RECURSIVE DeepEqual(_, _)
DeepEqual(a, b) ==
  /\ ObjectKeys(a) = ObjectKeys(b)
  /\ \A k \in ObjectKeys(a) :
       LET u == ValueAt(a, k)
           v == ValueAt(b, k)
       IN IF u.t = "obj" /\ v.t = "obj" THEN DeepEqual(u.o, v.o) ELSE u = v

IsObjectCall(cs) == Len(cs) = 2 /\ cs[1] = Str("cache") /\ cs[2].t = "obj"

(* C15: two calls generateKey(prefix, a) and generateKey(prefix, b) whose  *)
(* objects a and b have the same properties with deep-equal values, in     *)
(* whatever order at whatever depth, return the same key.                  *)
C15_OrderInsensitive ==
  (/\ BothKeys
   /\ IsObjectCall(lastCall.components[1])
   /\ IsObjectCall(lastCall.components[2])
   /\ DeepEqual(lastCall.components[1][2].o, lastCall.components[2][2].o))
    => lastCall.keys[1] = lastCall.keys[2]

AllStrings(cs) == \A j \in 1..Len(cs) : cs[j].t = "str"

(* the segments, each followed by ':' except the last *)
RECURSIVE Joined(_)
Joined(segs) ==
  IF Len(segs) = 1 THEN segs[1]
  ELSE Joined(SubSeq(segs, 1, Len(segs) - 1)) \o ":" \o segs[Len(segs)]

(* the texts of 32 lowercase hexadecimal digits that are digests *)
Fingerprints ==
  {digestHex(md5[text]) : text \in {t \in DOMAIN md5 : md5[t] \in [1..32 -> HexDigits]}}

(* what a component may contribute to the key *)
SegmentsOf(c) ==
  CASE c.t = "str" -> {c.s}
    [] c.t = "num" -> {ToString(c.n)}
    [] c.t = "obj" -> Fingerprints

(* C16: the key returned for a component list is its segments in order,    *)
(* joined by single ':' characters, where the segment of a string is the   *)
(* string, of a number its decimal text, and of an object a fingerprint of *)
(* 32 lowercase hexadecimal digits: ('user','123','profile') gives         *)
(* 'user:123:profile' and ('cache', obj) gives 'cache:' and 32 digits.     *)
C16_KeyFormat ==
  lastCall.op = "generateKey" =>
    \A i \in 1..Len(lastCall.keys) :
      LET cs  == lastCall.components[i]
          key == lastCall.keys[i]
      IN /\ \E segs \in [1..Len(cs) -> UNION {SegmentsOf(cs[j]) : j \in 1..Len(cs)}] :
              /\ \A j \in 1..Len(cs) : segs[j] \in SegmentsOf(cs[j])
              /\ key = Joined(segs)
         /\ cs = <<Str("user"), Str("123"), Str("profile")>> => key = "user:123:profile"

C16_Witness ==
  /\ BothKeys
  /\ lastCall.components[1] = <<Str("user"), Str("123"), Str("profile")>>
  /\ lastCall.keys[1] = "user:123:profile"
  /\ IsObjectCall(lastCall.components[2])
  /\ Len(lastCall.components[2][2].o) = 2
  /\ lastCall.keys[2] = "cache:" \o digestHex(md5["{\"a\":1,\"b\":{\"y\":2,\"x\":1}}"])

(* C17: two different lists of string components never get the same key.  *)
C17_InjectiveOnStrings ==
  (/\ BothKeys
   /\ AllStrings(lastCall.components[1])
   /\ AllStrings(lastCall.components[2])
   /\ lastCall.components[1] # lastCall.components[2])
    => lastCall.keys[1] # lastCall.keys[2]

----------------------------------------------------------------------------
(* Claims about the Stats Tracker *)

(* C18: with n the number of calls to get since the counters were last     *)
(* zero and h the number of hits among them, hitRate is h/n, a ratio       *)
(* between 0 and 1, and 0 when n = 0.  Under SpecStats every get is        *)
(* counted as a hit, a miss or an error and nothing else raises an error,  *)
(* so n = hits + misses + errors.                                          *)
C18_HitRateIsRatio ==
  LET n == stats.hits + stats.misses + stats.errors
      h == stats.hits
  IN IF n = 0 THEN stats.hitRate.num = 0
     ELSE /\ stats.hitRate.num * n = h * stats.hitRate.den
          /\ 0 <= stats.hitRate.num
          /\ stats.hitRate.num <= stats.hitRate.den

(* C19: hitRate is the percentage of hits among the counted reads:         *)
(* 100*h/(h+m) when h+m > 0 (50 after one hit and one miss), and 0 before  *)
(* any read and after resetStats.                                          *)
C19_HitRateIsPercentage ==
  LET h == stats.hits
      m == stats.misses
  IN /\ h + m > 0 => stats.hitRate.num * (h + m) = 100 * h * stats.hitRate.den
     /\ h + m = 0 => stats.hitRate.num = 0
     /\ (h = 1 /\ m = 1) => stats.hitRate.num = 50 * stats.hitRate.den
     /\ lastOp.op = "resetStats" => stats.hitRate.num = 0

C19_Witness ==
  /\ lastOp.op = "get"
  /\ stats.hits = 1
  /\ stats.misses = 1
  /\ stats.hitRate.num = 50 * stats.hitRate.den

(* C20: a call of get, set or delete has changed at least one of the       *)
(* counters hits, misses, sets, deletes, errors when it returns, whether   *)
(* the backend is connected, rejecting commands or disconnected.           *)
C20_EveryCallCounted ==
  lastOp.op \in {"get", "set", "delete"} => lastOp.counted

(* the step has added d to the five counters *)
Counted(d) == Counters(stats') = [i \in 1..5 |-> Counters(stats)[i] + d[i]]

(* C21: on a healthy backend a get of a stored key adds one to hits and a  *)
(* get of an absent key one to misses, a set that returns true adds one to *)
(* sets, a delete adds one to deletes whether or not the key existed; none *)
(* of them changes another counter, so errors stays 0 and the counters     *)
(* from a reset on are exactly (h, m, s, d, 0).  getStats returns the      *)
(* counters in an object whose mutation leaves the tracker as it was.      *)
C21_CountersExact ==
  [][/\ (lastOp'.op = "get" /\ lastOp'.healthy /\ lastOp'.hit) => Counted(<<1, 0, 0, 0, 0>>)
     /\ (lastOp'.op = "get" /\ lastOp'.healthy /\ ~lastOp'.hit) => Counted(<<0, 1, 0, 0, 0>>)
     /\ (lastOp'.op = "set" /\ lastOp'.healthy /\ lastOp'.ret = TRUE)
          => Counted(<<0, 0, 1, 0, 0>>)
     /\ (lastOp'.op = "delete" /\ lastOp'.healthy) => Counted(<<0, 0, 0, 1, 0>>)
     /\ lastOp'.op = "getStats" => (stats' = stats /\ lastCall'.ret.obj = stats)
     /\ lastOp'.op = "mutate" => stats' = stats
    ]_vars

(* a delete of an absent key has been counted, after a hit and a set *)
C21_Witness ==
  /\ lastOp.op = "delete"
  /\ lastOp.healthy
  /\ lastOp.ret = FALSE
  /\ Counters(stats) = <<1, 0, 1, 1, 0>>

(* C22: no step other than resetStats lowers one of the five counters;     *)
(* resetStats sets the five counters and hitRate to 0 and leaves the       *)
(* store and the connection state as they are.                             *)
C22_MonotoneUntilReset ==
  [][IF lastOp'.op = "resetStats"
     THEN /\ Counters(stats') = <<0, 0, 0, 0, 0>>
          /\ stats'.hitRate.num = 0
          /\ kv' = kv
          /\ tagsets' = tagsets
          /\ isConnected' = isConnected
     ELSE \A i \in 1..5 : Counters(stats')[i] >= Counters(stats)[i]
    ]_vars

(* a reset after a hit, with the key still in the store *)
C22_Witness ==
  /\ lastOp.op = "resetStats"
  /\ stats = ZeroStats
  /\ \E k \in ClientKeys : Live(kv[k])

----------------------------------------------------------------------------
(* Claims about invalidation by tag (SpecInvalidate) *)

(* what the claim says of the call that has just returned *)
InvalidatedAll ==
  /\ \A k \in lastOp.union : ~Live(kv[k])
  /\ lastOp.ret = lastOp.removed
  /\ \A t \in SeqRange(lastOp.tags) : tagsets[t] = NoSet

AgentMetrics == {"P/E Ratio", "Revenue Growth", "ROE", "Operating Margin", "Price",
                 "52 Week High", "52 Week Low", "Beta", "Debt to Equity",
                 "Current Ratio", "Gross Margin", "Free Cash Flow"}

(* the metric is taken as it is *)
OrDefault_absent(m, d) == m

(* fundamentals[k] || d: undefined, null, 0 and NaN give the default *)
OrDefault(m, d) == IF m.defined /\ m.n # 0 THEN m ELSE Num(d)

(* x.toFixed(...) throws a TypeError unless x is a number *)
toFixedThrows(m) == ~m.defined

(* score of generateFundamentalPerspective: the number of tests that hold *)
FundamentalScore(fundamentals) ==
  LET peRatio       == OrDefault(fundamentals["P/E Ratio"], 2000)
      revenueGrowth == OrDefault(fundamentals["Revenue Growth"], 0)
      roe           == OrDefault(fundamentals["ROE"], 15)
      margin        == OrDefault(fundamentals["Operating Margin"], 15)
  IN Cardinality({i \in 1..4 : <<Lt(peRatio, 2000), Gt(revenueGrowth, 10),
                                 Gt(roe, 20), Gt(margin, 20)>>[i]})

generateFundamentalPerspective(fundamentals) ==
  LET peRatio       == OrDefault(fundamentals["P/E Ratio"], 2000)
      revenueGrowth == OrDefault(fundamentals["Revenue Growth"], 0)
      roe           == OrDefault(fundamentals["ROE"], 15)
      margin        == OrDefault(fundamentals["Operating Margin"], 15)
      score         == FundamentalScore(fundamentals)
  IN [raised |-> \E m \in {peRatio, revenueGrowth, roe, margin} : toFixedThrows(m),
      agentType |-> "Fundamental Analyst",
      recommendation |-> IF score >= 3 THEN "Buy" ELSE IF score >= 2 THEN "Hold" ELSE "Sell",
      confidence |-> 75 + score * 5,
      keyPoints |-> 4,
      bias |-> IF score >= 3 THEN "Bullish" ELSE IF score <= 1 THEN "Bearish"
               ELSE "Neutral"]

(* num / den > a / b and num / den < a / b in floating point: a division   *)
(* by 0 gives Infinity, -Infinity or NaN                                   *)
QuotientGt(num, den, a, b) ==
  IF den > 0 THEN num * b > a * den
  ELSE IF den < 0 THEN num * b < a * den
  ELSE num > 0
QuotientLt(num, den, a, b) ==
  IF den > 0 THEN num * b < a * den
  ELSE IF den < 0 THEN num * b > a * den
  ELSE num < 0

generateTechnicalPerspective(fundamentals) ==
  LET currentPrice == OrDefault(fundamentals["Price"], 10000)
      high52Week   == OrDefault(fundamentals["52 Week High"], 12000)
      low52Week    == OrDefault(fundamentals["52 Week Low"], 8000)
      beta         == OrDefault(fundamentals["Beta"], 100)
      num      == currentPrice.n - low52Week.n
      den      == high52Week.n - low52Week.n
      numbers  == currentPrice.defined /\ high52Week.defined /\ low52Week.defined
      nearHigh == numbers /\ QuotientGt(num, den, 8, 10)
      nearLow  == numbers /\ QuotientLt(num, den, 2, 10)
  IN [raised |-> toFixedThrows(beta),
      agentType |-> "Technical Analyst",
      recommendation |-> IF nearLow THEN "Buy" ELSE IF nearHigh THEN "Sell" ELSE "Hold",
      confidence |-> 70,
      keyPoints |-> 4,
      bias |-> IF nearLow THEN "Bullish" ELSE IF nearHigh THEN "Bearish" ELSE "Neutral"]

generateRiskPerspective(fundamentals, sentiment) ==
  LET debtToEquity == OrDefault(fundamentals["Debt to Equity"], 50)
      currentRatio == OrDefault(fundamentals["Current Ratio"], 150)
      beta         == OrDefault(fundamentals["Beta"], 100)
      debt      == IF Gt(debtToEquity, 200) THEN 4 ELSE IF Gt(debtToEquity, 100) THEN 2 ELSE 0
      liquidity == IF Lt(currentRatio, 100) THEN 4 ELSE IF Lt(currentRatio, 150) THEN 2 ELSE 0
      volatile  == IF Gt(beta, 150) THEN 3 ELSE 0
      mood      == IF sentiment.sentimentTrend \in {"volatile", "negative"} THEN 2 ELSE 0
      riskScore == debt + liquidity + volatile + mood
      riskFactors == Cardinality({i \in 1..4 : <<debt, liquidity, volatile, mood>>[i] > 0})
  IN [raised |-> \/ Gt(debtToEquity, 200) /\ toFixedThrows(debtToEquity)
                 \/ Lt(currentRatio, 100) /\ toFixedThrows(currentRatio)
                 \/ Gt(beta, 150) /\ toFixedThrows(beta),
      agentType |-> "Risk Analyst",
      recommendation |-> IF riskScore > 8 THEN "Sell" ELSE IF riskScore > 4 THEN "Hold"
                         ELSE "Buy",
      confidence |-> 80,
      keyPoints |-> IF riskFactors > 0 THEN riskFactors ELSE 2,
      bias |-> IF riskScore > 6 THEN "Bearish" ELSE "Neutral"]

generateOptimistPerspective(fundamentals, sentiment) ==
  LET revenueGrowth == OrDefault(fundamentals["Revenue Growth"], 0)
      margin        == OrDefault(fundamentals["Gross Margin"], 30)
      fcf           == OrDefault(fundamentals["Free Cash Flow"], 1000)
  IN [raised |-> \E m \in {revenueGrowth, margin, fcf, sentiment.analystRating} :
                   toFixedThrows(m),
      agentType |-> "Optimist Analyst",
      recommendation |-> "Buy",
      confidence |-> 85,
      keyPoints |-> 5,
      bias |-> "Bullish"]

generateSkepticalPerspective(fundamentals, sentiment) ==
  LET peRatio      == OrDefault(fundamentals["P/E Ratio"], 2000)
      debtToEquity == OrDefault(fundamentals["Debt to Equity"], 50)
  IN [raised |-> toFixedThrows(peRatio) \/ toFixedThrows(debtToEquity),
      agentType |-> "Skeptical Analyst",
      recommendation |-> IF Gt(peRatio, 3000) THEN "Sell" ELSE "Hold",
      confidence |-> 75,
      keyPoints |-> 5,
      bias |-> "Bearish"]

(* the five perspectives in the order of the push calls; an exception of   *)
(* one of the generators leaves the method                                 *)
generateBasePerspectives(fundamentals, sentiment) ==
  LET perspectives == <<generateFundamentalPerspective(fundamentals),
                        generateTechnicalPerspective(fundamentals),
                        generateRiskPerspective(fundamentals, sentiment),
                        generateOptimistPerspective(fundamentals, sentiment),
                        generateSkepticalPerspective(fundamentals, sentiment)>>
  IN IF \E i \in 1..5 : perspectives[i].raised
     THEN [raised |-> TRUE, perspectives |-> <<>>]
     ELSE [raised |-> FALSE, perspectives |-> perspectives]

(* a fundamentals map; a key it does not have reads as undefined *)
FundamentalsOf(pe, growth, roe, margin, price, high, beta, debt, ratio) ==
  [k \in AgentMetrics |->
     CASE k = "P/E Ratio"        -> pe
       [] k = "Revenue Growth"   -> growth
       [] k = "ROE"              -> roe
       [] k = "Operating Margin" -> margin
       [] k = "Price"            -> price
       [] k = "52 Week High"     -> high
       [] k = "Beta"             -> beta
       [] k = "Debt to Equity"   -> debt
       [] k = "Current Ratio"    -> ratio
       [] OTHER                  -> Missing]

EmptyFundamentals == [k \in AgentMetrics |-> Missing]

FundamentalsMaps ==
  {FundamentalsOf(pe, growth, roe, margin, price, high, beta, debt, ratio) :
     pe \in {Missing, NullMetric, Num(0), Num(1500), Num(3500)},
     growth \in {Missing, Num(20)}, roe \in {Missing, Num(25)},
     margin \in {Missing, Num(25)},
     price \in {Missing, Num(8500), Num(11800)}, high \in {Missing, Num(8000)},
     beta \in {Missing, Num(200)}, debt \in {Missing, Num(150), Num(250)},
     ratio \in {Missing, Num(80), Num(120)}}

Sentiments == [analystRating : {Num(420)}, socialSentiment : {Num(60)},
               newsVolume : {100, 300},
               sentimentTrend : {"positive", "negative", "volatile"}]

GenerateBasePerspectives ==
  /\ MockOnly
  /\ lastCall.op = "arguments"
  /\ lastCall' = [op |-> "generateBasePerspectives",
                  fundamentals |-> lastCall.fundamentals,
                  sentiment |-> lastCall.sentiment,
                  result |-> generateBasePerspectives(lastCall.fundamentals,
                                                      lastCall.sentiment)]

AgentInit ==
  /\ llmClients = {}
  /\ avKey = FALSE
  /\ \E f \in FundamentalsMaps, s \in Sentiments :
       lastCall = [op |-> "arguments", fundamentals |-> f, sentiment |-> s]

InitAgent == CacheInit /\ IdleLimiter /\ IdleProcs /\ AgentInit

NextAgent == GenerateBasePerspectives

SpecAgent == InitAgent /\ [][NextAgent]_vars

(***************************************************************************)
(* AlphaVantageService.enforceRateLimit.  Time is in milliseconds and the  *)
(* clock moves in steps of Quantum.  A call runs without interruption up   *)
(* to its await (the timer) and, when the timer has fired, from there to   *)
(* its return.  Callers are interchangeable, so they call in index order.  *)
(***************************************************************************)
MaxCallers == 7
MaxAdvance == 5
Quantum == 20000

RATE_LIMIT == 5
RATE_LIMIT_WINDOW == 60000

Callers == 1..MaxCallers

(* lastRequestTime starts at 0 and Date.now() is far beyond one window *)
StartTime == RATE_LIMIT_WINDOW + Quantum

NotCalled == [waitTime |-> 0, wakeAt |-> 0, at |-> 0]

(* if (now - lastRequestTime > RATE_LIMIT_WINDOW) { requestCount = 0; lastRequestTime = now } *)
windowReset(rc, last, t) ==
  IF t - last > RATE_LIMIT_WINDOW
  THEN [requestCount |-> 0, lastRequestTime |-> t]
  ELSE [requestCount |-> rc, lastRequestTime |-> last]

(* const waitTime = RATE_LIMIT_WINDOW - (now - lastRequestTime) *)
waitTime(last, t) == RATE_LIMIT_WINDOW - (t - last)

(* await new Promise(resolve => setTimeout(resolve, waitTime)): the call is
   suspended until the timer fires -- a mutant rejects the call instead *)
suspend_reject(wait, t) == [pc |-> "rejected", waitTime |-> wait, wakeAt |-> 0]
suspend(wait, t) == [pc |-> "waiting", waitTime |-> wait, wakeAt |-> t + wait]

(* enforceRateLimit from its first statement to the await or to the return *)
enforceRateLimit(rc, last, t) ==
  LET w == windowReset(rc, last, t)
      wait == waitTime(w.lastRequestTime, t)
  IN  IF w.requestCount >= RATE_LIMIT /\ wait > 0
      THEN suspend(wait, t) @@
           [requestCount |-> w.requestCount, lastRequestTime |-> w.lastRequestTime]
      ELSE [pc |-> "admitted", waitTime |-> 0, wakeAt |-> 0,
            requestCount |-> w.requestCount + 1,
            lastRequestTime |-> w.lastRequestTime]

LimiterOnly == UNCHANGED <<isConnected, stats, kv, tagsets, ticks, lastOp, written,
                           setTags, onlySets, writeOrder, llmClients, avKey, lastCall>>

LimiterInit ==
  /\ requestCount = 0
  /\ lastRequestTime = 0
  /\ now = StartTime
  /\ pc = [p \in Callers |-> "idle"]
  /\ local = [p \in Callers |-> NotCalled]
  /\ writeOrder = 0

(* a caller calls enforceRateLimit: const now = Date.now(), then up to the
   await or, without one, to requestCount++ and the return *)
Enter(p) ==
  /\ pc[p] = "idle"
  /\ \A q \in Callers : q < p => pc[q] # "idle"
  /\ LET r == enforceRateLimit(requestCount, lastRequestTime, now)
     IN  /\ pc' = [pc EXCEPT ![p] = r.pc]
         /\ local' = [local EXCEPT ![p] = [waitTime |-> r.waitTime, wakeAt |-> r.wakeAt,
                                           at |-> IF r.pc = "admitted" THEN now ELSE 0]]
         /\ requestCount' = r.requestCount
         /\ lastRequestTime' = r.lastRequestTime
  /\ UNCHANGED now
  /\ LimiterOnly

(* the timer of a suspended call has fired: requestCount = 0;
   lastRequestTime = Date.now(); then requestCount++ and the return *)
Resume(p) ==
  /\ pc[p] = "waiting"
  /\ now >= local[p].wakeAt
  /\ pc' = [pc EXCEPT ![p] = "admitted"]
  /\ local' = [local EXCEPT ![p].at = now]
  /\ requestCount' = 0 + 1
  /\ lastRequestTime' = now
  /\ UNCHANGED now
  /\ LimiterOnly

TimerPending == \E p \in Callers : pc[p] = "waiting" /\ local[p].wakeAt > now

(* the clock moves on *)
Advance ==
  /\ now < StartTime + MaxAdvance * Quantum \/ TimerPending
  /\ now' = now + Quantum
  /\ UNCHANGED <<requestCount, lastRequestTime, pc, local>>
  /\ LimiterOnly

InitLimiter == CacheInit /\ IdleChains /\ LimiterInit

NextLimiter ==
  \/ \E p \in Callers : Enter(p)
  \/ \E p \in Callers : Resume(p)
  \/ Advance

SpecLimiter == InitLimiter /\ [][NextLimiter]_vars

(* the clock keeps moving and the event loop runs every timer that is due *)
SpecLimiterLive ==
  /\ InitLimiter
  /\ [][NextLimiter]_vars
  /\ WF_vars(Advance)
  /\ \A p \in Callers : WF_vars(Resume(p))

(***************************************************************************)
(* Claims about the rate limiter (SpecLimiter, SpecLimiterLive) *)
(***************************************************************************)
Admitted == {p \in Callers : pc[p] = "admitted"}

(* the calls admitted at a time t with from <= t < from + RATE_LIMIT_WINDOW *)
AdmittedWithin(from) ==
  {p \in Admitted : local[p].at >= from /\ local[p].at < from + RATE_LIMIT_WINDOW}

(* C24: whatever the interleaving of the callers, no stretch of            *)
(* RATE_LIMIT_WINDOW milliseconds holds more than RATE_LIMIT admissions.   *)
C24_AtMostLimitPerWindow ==
  \A p \in Admitted : Cardinality(AdmittedWithin(local[p].at)) <= RATE_LIMIT

(* C25: no call of enforceRateLimit is rejected; every call returns, the   *)
(* calls beyond the limit after their timer has fired.                     *)
C25_EveryCallReturns ==
  \A p \in Callers : (pc[p] # "idle") ~> (pc[p] = "admitted")

C25_Witness ==
  \E p \in Callers : pc[p] = "admitted" /\ local[p].waitTime > 0 /\ local[p].at >= local[p].wakeAt

(***************************************************************************)
(* Claims about what a fallback chain keeps between calls (SpecFrame) *)
(***************************************************************************)
(* the first provider of each chain that the process is configured for *)
FirstLLM(clients) == CHOOSE p \in clients : \A q \in clients : Position(p) <= Position(q)
FirstMarket(key) == IF key THEN "alphaVantage" ELSE "yahoo"

(* the call that has just returned began at the first configured provider *)
StartsAtFirst(call, clients, key) ==
  /\ call.op = "generateAgentPerspective" =>
       /\ call.invoked # <<>> => Head(call.invoked) = FirstLLM(clients)
       /\ (clients # {} /\ ~buildAgentPromptThrows(call.context)) => call.invoked # <<>>
       /\ \A i, j \in 1..Len(call.invoked) :
            i < j => Position(call.invoked[i]) < Position(call.invoked[j])
  /\ (call.op = "getFundamentals" /\ ~call.hit) =>
       /\ call.invoked # <<>>
       /\ Head(call.invoked) = FirstMarket(key)
       /\ call.invoked \in {<<"alphaVantage">>, <<"yahoo">>, <<"alphaVantage", "yahoo">>}

(* C26: a call of either chain begins at the first configured provider and *)
(* goes on in the fixed order, whatever the call before it came to, and    *)
(* it leaves the set of configured providers as it was.                    *)
C26_ChainKeepsNoState ==
  [][/\ llmClients' = llmClients
     /\ avKey' = avKey
     /\ StartsAtFirst(lastCall', llmClients, avKey)]_vars

(* Alpha Vantage gave nothing in the call before, the result was not      *)
(* stored, and this call for the same symbol asks Alpha Vantage first      *)
C26_Witness ==
  /\ avKey
  /\ lastCall.op = "getFundamentals"
  /\ ~lastCall.hit
  /\ lastCall.after
  /\ Head(lastCall.invoked) = "alphaVantage"

(***************************************************************************)
(* Claims about the score of the synthetic generator (SpecMock) *)
(***************************************************************************)
(* what the agent type adds to the score *)
Disposition(agentType) ==
  CASE agentType = "Optimist Analyst"  -> 2
    [] agentType = "Skeptical Analyst" -> -2
    [] agentType = "Risk Analyst"      -> -1
    [] OTHER                           -> 0

(* the sentences of one list of getGenericPoint *)
PoolPoints(list) == {list \o ":" \o ToString(i) : i \in 0..4}

(* the key points of a result that come from getGenericPoint *)
Fillers(call) ==
  {call.result.keyPoints[i] :
     i \in (Len(MetricPoints(call.context)) + 1)..Len(call.result.keyPoints)}

Returned == lastCall.op = "generateIntelligentMock" /\ ~lastCall.result.raised

(* C27: the score is an integer in -2..12, the five metrics giving 0..10   *)
(* and the agent type +2, -2, -1 or 0; a score of 7 or more gives Buy,     *)
(* Bullish and fillers of the positive list, 4..6 gives Hold, Neutral and  *)
(* fillers of the neutral list, 3 or less gives Sell, Bearish and fillers  *)
(* of the negative list.                                                   *)
C27_ScoreBands ==
  Returned =>
    LET r == lastCall.result
        metrics == r.score - Disposition(lastCall.agentType)
    IN /\ r.score \in -2..12
       /\ metrics \in 0..10
       /\ r.score >= 7 =>
            r.recommendation = "Buy" /\ r.bias = "Bullish"
              /\ Fillers(lastCall) \subseteq PoolPoints("bullish")
       /\ (r.score >= 4 /\ r.score <= 6) =>
            r.recommendation = "Hold" /\ r.bias = "Neutral"
              /\ Fillers(lastCall) \subseteq PoolPoints("neutral")
       /\ r.score <= 3 =>
            r.recommendation = "Sell" /\ r.bias = "Bearish"
              /\ Fillers(lastCall) \subseteq PoolPoints("bearish")

(* a score of exactly 6, one below Buy, with a filler among the key points *)
C27_Witness ==
  /\ Returned
  /\ lastCall.result.score = 6
  /\ lastCall.result.recommendation = "Hold"
  /\ Fillers(lastCall) # {}

(***************************************************************************)
(* Claims about two runs of the synthetic generator (SpecAgain) *)
(***************************************************************************)
(* the key points of a result that the metrics gave rise to *)
MetricDerived(call, result) ==
  SubSeq(result.keyPoints, 1,
         IF Len(MetricPoints(call.context)) < Len(result.keyPoints)
         THEN Len(MetricPoints(call.context)) ELSE Len(result.keyPoints))

(* C28: two runs of generateIntelligentMock on the same agent type and     *)
(* metrics give the same recommendation, the same bias and the same        *)
(* metric-derived key points, whatever Math.random() draws in each.        *)
C28_SameInputsSameVerdict ==
  lastCall.op = "again" =>
    /\ lastCall.result.raised = lastCall.first.raised
    /\ lastCall.result.recommendation = lastCall.first.recommendation
    /\ lastCall.result.bias = lastCall.first.bias
    /\ MetricDerived(lastCall, lastCall.result) = MetricDerived(lastCall, lastCall.first)
    /\ ~lastCall.result.raised =>
         MetricDerived(lastCall, lastCall.result) = MetricPoints(lastCall.context)

(* the two runs drew differently: target price and fillers differ *)
C28_Witness ==
  /\ lastCall.op = "again"
  /\ ~lastCall.result.raised
  /\ lastCall.rand.mult # lastCall.firstRand.mult
  /\ lastCall.rand.fill # lastCall.firstRand.fill
  /\ lastCall.result.targetPrice # lastCall.first.targetPrice
  /\ lastCall.result.keyPoints # lastCall.first.keyPoints
  /\ MetricPoints(lastCall.context) # <<>>

(***************************************************************************)
(* Claims about the rule-based perspectives (SpecAgent) *)
(***************************************************************************)
AgentOrder == <<"Fundamental Analyst", "Technical Analyst", "Risk Analyst",
                "Optimist Analyst", "Skeptical Analyst">>

(* C29: for every fundamentals map, the one without any metric included,   *)
(* generateBasePerspectives does not raise and returns five perspectives,  *)
(* in the order fundamental, technical, risk, optimist, skeptical, each    *)
(* with a recommendation among Buy, Hold, Sell and a confidence within     *)
(* [0,1]; the fundamental one is Buy/Bullish for a score of 3 or more,     *)
(* Hold/Neutral for 2 and Sell/Bearish for 1 or less.                      *)
C29_FivePerspectives ==
  lastCall.op = "generateBasePerspectives" =>
    LET r == lastCall.result
        score == FundamentalScore(lastCall.fundamentals)
    IN /\ ~r.raised
       /\ Len(r.perspectives) = 5
       /\ \A i \in 1..5 :
            /\ r.perspectives[i].agentType = AgentOrder[i]
            /\ r.perspectives[i].recommendation \in {"Buy", "Hold", "Sell"}
            /\ r.perspectives[i].confidence >= 0
            /\ r.perspectives[i].confidence <= 100
       /\ score >= 3 => r.perspectives[1].recommendation = "Buy"
                          /\ r.perspectives[1].bias = "Bullish"
       /\ score = 2 => r.perspectives[1].recommendation = "Hold"
                         /\ r.perspectives[1].bias = "Neutral"
       /\ score <= 1 => r.perspectives[1].recommendation = "Sell"
                          /\ r.perspectives[1].bias = "Bearish"

(* the map without any metric: every default applies *)
C29_Witness ==
  /\ lastCall.op = "generateBasePerspectives"
  /\ lastCall.fundamentals = EmptyFundamentals
  /\ ~lastCall.result.raised
  /\ lastCall.result.perspectives[1].recommendation = "Sell"
  /\ lastCall.result.perspectives[2].recommendation = "Hold"

(***************************************************************************)
(* Claims about the lifetime of the market entries (SpecExpiry) *)
(***************************************************************************)
(* the entry the service wrote under key is gone once seconds have passed *)
GoneAfter(key, seconds) ==
  (written[key].valid /\ written[key].age >= seconds) => ~Live(kv[key])

(* C30: the entry getFundamentals writes cannot be read any more 300       *)
(* seconds after the write, the entry getSentiment writes 600 seconds      *)
(* after the write.                                                        *)
C30_EntriesExpire ==
  \A s \in Symbols :
    /\ GoneAfter(cacheKey(s), FundamentalsSeconds)
    /\ GoneAfter(sentimentKey(s), SentimentSeconds)

(***************************************************************************)
(* Claims about the sentiment fallback (SpecMarket) *)
(***************************************************************************)
(* C31: when the Yahoo Finance request behind the sentiment fails, a       *)
(* getSentiment that missed the cache returns generateMockSentiment of     *)
(* the symbol.                                                             *)
C31_MockOnYahooFailure ==
  (lastCall.op = "getSentiment" /\ ~lastCall.hit /\ lastCall.yahoo = "throw")
    => lastCall.ret = generateMockSentiment(lastCall.symbol)

(***************************************************************************)
(* Claims about clearing a symbol (SpecClear) *)
(***************************************************************************)
(* C32: once clearSymbol(symbol) has responded on a connected backend      *)
(* that rejects no command, no entry cached for the symbol is readable,    *)
(* and entriesDeleted is the number of entries the call removed.           *)
C32_ClearSymbolClears ==
  (lastCall.op = "clearSymbol" /\ lastOp.healthy) =>
    /\ \A k \in SymbolKeys(lastCall.symbol) : ~Live(kv[k])
    /\ lastCall.entriesDeleted = lastOp.removed

(***************************************************************************)
(* Claims about a set that races with an invalidation (SpecRace) *)
(***************************************************************************)
RaceOver == \A p \in Racers : pc[p] = "done"

(* C33: once a set(k, v, {tags}) and a concurrent invalidateByTags of one  *)
(* of its tags t have both completed, k is deleted or is a member of the   *)
(* TagSet of t, whatever the order of their commands.                      *)
C33_NeverOutsideIndex ==
  RaceOver =>
    \A t \in SeqRange(local["set"].options.tags) \cap SeqRange(local["invalidate"].tags) :
      \/ ~Live(kv[local["set"].key])
      \/ local["set"].key \in RedisSmembers([kv |-> kv, tagsets |-> tagsets], t)

(***************************************************************************)
(* Claims about stale membership of the tag index (SpecTag) *)
(***************************************************************************)
(* C34: invalidateByTags(tags) deletes only keys whose most recent set     *)
(* carried at least one of the given tags: a key that was set with tag t   *)
(* and then set again without it is not deleted by invalidateByTags([t]).  *)
C34_DeletesOnlyTagged ==
  [][(lastOp'.op = "invalidateByTags" /\ ticks' = ticks) =>
       \A k \in Keys : (Live(kv[k]) /\ ~Live(kv'[k])) =>
                          setTags[k] \cap SeqRange(lastOp'.tags) # {}]_vars

(***************************************************************************)
(* Claims about the two writers of a fundamentals entry (SpecMarket) *)
(***************************************************************************)
(* the texts under which the two writers store the map m: the service      *)
(* hands set a JSON text, the controller the object                        *)
StoredTexts(m) == {JSONstringify(JSONstringifyMap(m)), JSONstringify(ObjectValue(m))}

(* C35: when an entry is present under fundamentals:<symbol>,              *)
(* marketService.getFundamentals returns exactly the cached map, whether   *)
(* MarketService or MarketController stored it, never mock data instead.   *)
C35_ReturnsCachedMap ==
  (lastCall.op = "getFundamentals" /\ lastCall.hit) =>
     lastCall.cached \in StoredTexts(lastCall.ret)

(***************************************************************************)
(* Claims about what the hit and miss counters count (Spec) *)
(***************************************************************************)
(* C36: on a connected backend hits counts the get calls that returned a   *)
(* value and misses those that returned null without a backend error: a    *)
(* get that is counted as a hit does not return absent, and a get that     *)
(* returns absent without an error is counted as a miss.                   *)
C36_HitsReturnValues ==
  [][(lastOp'.op = "get" /\ lastOp'.healthy /\ ticks' = ticks /\ stats' # stats) =>
       /\ (stats'.hits = stats.hits + 1) = (lastOp'.ret # "null")
       /\ (stats'.misses = stats.misses + 1) = (lastOp'.ret = "null")]_vars

(***************************************************************************)
(* Claims about the connection flag and reconnection (SpecReconnect) *)
(***************************************************************************)
ConnectionEvents == {"ready", "close", "disconnect"}

(* the entry under k was written before the connection last ended and no   *)
(* set or delete has reached the backend since                             *)
FromBeforeOutage(k) ==
  /\ local.closed /\ local.written[k].valid
  /\ written[k].valid /\ written[k].v = local.written[k].v
  /\ stats.sets = local.sets /\ stats.deletes = local.deletes

Unexpired(w) == w.age < (IF w.ttl # 0 THEN w.ttl ELSE cacheTTL_default)

(* the state after a call that found the service connected again after an  *)
(* outage: a get of an unexpired entry from before the outage returns what *)
(* was written, a set has stored its value, a delete has removed the entry *)
OperatesAgain ==
  (local.closed /\ lastOp.connected) =>
    /\ (lastOp.op = "get" /\ FromBeforeOutage(lastOp.key)
          /\ Unexpired(written[lastOp.key])) =>
         lastOp.ret = written[lastOp.key].v
    /\ lastOp.op = "set" =>
         lastOp.ret = TRUE /\ kv[lastOp.key].s = JSONstringify(lastOp.value)
    /\ lastOp.op = "delete" => ~Live(kv[lastOp.key])

(* C37: isConnected is true exactly from a 'ready' event until the next    *)
(* 'close' event or disconnect(): it is false after construction, true     *)
(* after ready, false after close and after disconnect, and no other step  *)
(* changes it.  After a close followed by ready, get, set and delete reach *)
(* the backend again, and an unexpired entry written before the outage is  *)
(* read back.                                                              *)
C37_ConnectedFromReadyToClose ==
  [][/\ lastOp'.op = "ready" => isConnected'
     /\ lastOp'.op \in {"close", "disconnect"} => ~isConnected'
     /\ isConnected' # isConnected => lastOp'.op \in ConnectionEvents
     /\ OperatesAgain']_vars

(* a get after close and ready has returned an entry written before the    *)
(* outage                                                                  *)
C37_Witness ==
  /\ lastOp.op = "get" /\ lastOp.connected /\ lastOp.ret = "a"
  /\ FromBeforeOutage(lastOp.key)

(***************************************************************************)
(* Claims about the verdicts of the four dispositions (SpecMock) *)
(***************************************************************************)
(* Sell < Hold < Buy *)
Rank(recommendation) ==
  CASE recommendation = "Buy"  -> 2
    [] recommendation = "Hold" -> 1
    [] OTHER                   -> 0

(* from the most favourable disposition to the least; the two unbiased     *)
(* analysts stand side by side                                             *)
ByDisposition == <<"Optimist Analyst", "Fundamental Analyst", "Technical Analyst",
                   "Risk Analyst", "Skeptical Analyst">>

Place(agentType) == CHOOSE i \in 1..Len(ByDisposition) : ByDisposition[i] = agentType

(* the recommendation another analyst gives for the metrics of the call *)
VerdictOf(agentType) ==
  Rank(generateIntelligentMock(agentType, lastCall.context).recommendation)

(* C38: for fixed metrics the synthetic recommendation is monotone in the  *)
(* disposition: with Sell < Hold < Buy, optimist >= unbiased (fundamental, *)
(* technical) >= risk >= skeptical.                                        *)
C38_MonotoneInDisposition ==
  (lastCall.op = "generateIntelligentMock" /\ ~lastCall.result.raised) =>
    /\ \A i \in 1..Len(ByDisposition) :
         /\ i < Place(lastCall.agentType) =>
              VerdictOf(ByDisposition[i]) >= Rank(lastCall.result.recommendation)
         /\ i > Place(lastCall.agentType) =>
              VerdictOf(ByDisposition[i]) <= Rank(lastCall.result.recommendation)
    /\ VerdictOf("Fundamental Analyst") = VerdictOf("Technical Analyst")

(* the optimist has said Buy on metrics for which the unbiased analysts    *)
(* and the risk analyst say Hold and the skeptic says Sell                 *)
C38_Witness ==
  /\ lastCall.op = "generateIntelligentMock" /\ ~lastCall.result.raised
  /\ lastCall.agentType = "Optimist Analyst"
  /\ lastCall.result.recommendation = "Buy"
  /\ VerdictOf("Fundamental Analyst") = 1
  /\ VerdictOf("Risk Analyst") = 1
  /\ VerdictOf("Skeptical Analyst") = 0
====
